---------------------------- MODULE Spec2Model ----------------------------
(***************************************************************************)
(* A model of cloudoperators/common-cloud-resource-names:                 *)
(*   - the resource parser (pkg/parser: Parse, parseCCRNFields,           *)
(*     parseURNCCRNField, parseURNFields) and apis.ParsedResource,        *)
(*   - the orchestrator CCRNValidator.ValidateCCRN,                       *)
(*   - the Static Directory (validation.FilesystemBackend),               *)
(*   - the Live Directory (validation.KubernetesBackend).                 *)
(* Go strings are TLA+ strings, read character by character with SubSeq.  *)
(***************************************************************************)
EXTENDS Integers, Sequences, FiniteSets, TLC

VARIABLES
    argInput,    \* parser harness: the string handed to Parse / ValidateCCRN
    argTemplate,  \* parser harness: the urnTemplate argument
    out,        \* parser harness: what the operation applied last returned
    fb,         \* FilesystemBackend: crds, crdsByFile, validators, loadedPaths
    disk,       \* the files the Static Directory reads: file -> documents
    fbLock,     \* FilesystemBackend.crdsMutex: the writer holding it, or "free"
    fproc,      \* per goroutine of the Static Directory: its position and locals
    fobs,       \* what the reader that ran last observed under RLock
    kb,         \* KubernetesBackend: ccrns
    cluster,    \* the control plane: the definitions List would return now
    kbLock,     \* KubernetesBackend.crdsMutex: the writer holding it, or "free"
    kproc,      \* per goroutine of the Live Directory: its position and locals
    kobs,       \* what the lookup that ran last observed and returned
    khist,      \* history: every complete index a Refresh has installed
    klast       \* history: the Refresh whose replacement completed last

vars == <<argInput, argTemplate, out, fb, disk, fbLock, fproc, fobs,
          kb, cluster, kbLock, kproc, kobs, khist, klast>>

parseVars == <<argInput, argTemplate, out>>
fsVars == <<fb, disk, fbLock, fproc, fobs>>
k8sVars == <<kb, cluster, kbLock, kproc, kobs, khist, klast>>

---------------------------------------------------------------------------
(* Bounds of the model.                                                    *)

\* field-list inputs carry at most this many entries after the ccrn= entry
MaxEntries == 2
\* URN inputs carry at most this many slash-delimited segments
MaxSegments == 4
\* loadedPaths of the Static Directory grows to at most this many patterns
MaxPaths == 2

---------------------------------------------------------------------------
(* Go's strings package, as the parser uses it.                            *)

Min(S) == CHOOSE x \in S : \A y \in S : x <= y
Max(S) == CHOOSE x \in S : \A y \in S : x >= y

Ch(s, i) == SubSeq(s, i, i)

HasPrefix(s, p) == Len(s) >= Len(p) /\ SubSeq(s, 1, Len(p)) = p

HasSuffix(s, p) == Len(s) >= Len(p) /\ SubSeq(s, Len(s) - Len(p) + 1, Len(s)) = p

TrimPrefix(s, p) == IF HasPrefix(s, p) THEN SubSeq(s, Len(p) + 1, Len(s)) ELSE s

\* strings.Index: the first position (from 1) at which sub occurs in s, 0 if none
Index(s, sub) ==
    LET hits == {i \in 1..(Len(s) - Len(sub) + 1) : SubSeq(s, i, i + Len(sub) - 1) = sub}
    IN  IF hits = {} THEN 0 ELSE Min(hits)

Contains(s, sub) == Index(s, sub) # 0

IsSpace(c) == c \in {" ", "\t", "\n", "\r"}

TrimSpace(s) ==
    LET keep == {i \in 1..Len(s) : ~IsSpace(Ch(s, i))}
    IN  IF keep = {} THEN "" ELSE SubSeq(s, Min(keep), Max(keep))

\* strings.SplitN(s, sep, n): n > 0 at most n substrings, the last one the
\* unsplit remainder; n = 0 none; n < 0 all of them
RECURSIVE SplitN(_, _, _)
SplitN(s, sep, n) ==
    IF n = 0 THEN <<>>
    ELSE IF n = 1 \/ Index(s, sep) = 0 THEN <<s>>
    ELSE <<SubSeq(s, 1, Index(s, sep) - 1)>>
             \o SplitN(SubSeq(s, Index(s, sep) + Len(sep), Len(s)), sep, IF n < 0 THEN n ELSE n - 1)

Split(s, sep) == SplitN(s, sep, -1)

\* strings.Replace(s, old, new, 1)
Replace1(s, old, new) ==
    IF Index(s, old) = 0 THEN s
    ELSE SubSeq(s, 1, Index(s, old) - 1) \o new \o SubSeq(s, Index(s, old) + Len(old), Len(s))

RECURSIVE Join(_, _)
Join(parts, sep) ==
    IF parts = <<>> THEN ""
    ELSE IF Len(parts) = 1 THEN parts[1]
    ELSE parts[1] \o sep \o Join(Tail(parts), sep)

RECURSIVE Concat(_)
Concat(parts) == IF parts = <<>> THEN "" ELSE Head(parts) \o Concat(Tail(parts))

\* strings.ToLower, letter by letter
UpperLetters == "ABCDEFGHIJKLMNOPQRSTUVWXYZ"
LowerLetters == "abcdefghijklmnopqrstuvwxyz"

LowerOf == [c \in {Ch(UpperLetters, i) : i \in 1..26} |->
               Ch(LowerLetters, CHOOSE i \in 1..26 : Ch(UpperLetters, i) = c)]

LowerCh(c) == IF c \in DOMAIN LowerOf THEN LowerOf[c] ELSE c

RECURSIVE ToLower(_)
ToLower(s) == IF s = "" THEN "" ELSE LowerCh(Ch(s, 1)) \o ToLower(SubSeq(s, 2, Len(s)))

\* all sequences over S of length at most n
SeqsUpTo(S, n) == UNION {[1..k -> S] : k \in 0..n}

---------------------------------------------------------------------------
(* Errors and results.  A Go error is a record: the text of the message    *)
(* up to its first argument, then the arguments.                           *)

Err(tag, a, b) == [tag |-> tag, a |-> a, b |-> b]
NoErr == Err("nil", "", "")

\* a map[string]string; a nil map reads as the empty one
NoFields == [k \in {} |-> ""]

\* what a function returning (map, error) returns, or that it panicked
FieldsOK(fields) == [fault |-> "none", err |-> NoErr, fields |-> fields]
FieldsErr(err) == [fault |-> "none", err |-> err, fields |-> NoFields]
FieldsPanic == [fault |-> "panic", err |-> NoErr, fields |-> NoFields]

---------------------------------------------------------------------------
(* pkg/parser: the field-list parser and the URN codec.                    *)

DEFAULT_URN_TEMPLATE == "urn:ccrn:<ccrn>"

\* a parseCCRNFields that strips no quotes
keepsQuotes(value) == value

\* the quote stripping of parseCCRNFields
stripQuotes(value) ==
    IF Len(value) >= 2 /\ Ch(value, 1) = "\"" /\ Ch(value, Len(value)) = "\""
    THEN SubSeq(value, 2, Len(value) - 1)
    ELSE value

\* a loop that takes every entry as it comes
acceptsEveryEntry(fieldEntries, fields) == FieldsOK(("ccrn" :> "") @@ fields)

\* the loop of parseCCRNFields over the comma-separated entries
RECURSIVE ccrnEntries(_, _)
ccrnEntries(fieldEntries, fields) ==
    IF fieldEntries = <<>> THEN FieldsOK(fields)
    ELSE LET each(entry, parts) ==
                 IF entry = "" THEN ccrnEntries(Tail(fieldEntries), fields)
                 ELSE IF Len(parts) # 2
                      THEN FieldsErr(Err("invalid field format: ", entry, " (must be key=value)"))
                 ELSE ccrnEntries(Tail(fieldEntries),
                                  (TrimSpace(parts[1]) :> stripQuotes(TrimSpace(parts[2]))) @@ fields)
         IN  each(TrimSpace(Head(fieldEntries)), SplitN(TrimSpace(Head(fieldEntries)), "=", 2))

parseCCRNFields(ccrn) ==
    IF ~HasPrefix(ccrn, "ccrn=")
    THEN FieldsErr(Err("invalid CCRN format: must start with 'ccrn='", "", ""))
    ELSE LET checked(r) ==
                 IF r.err # NoErr THEN r
                 ELSE IF "ccrn" \notin DOMAIN r.fields
                      THEN FieldsErr(Err("missing required field: ccrn", "", ""))
                 ELSE r
         IN  checked(ccrnEntries(Split(TrimSpace(ccrn), ","), NoFields))

\* returns (string, error): the type key of a URN, without a template
parseURNCCRNField(urn) ==
    LET split(parts) ==
            IF Len(parts) < 3
            THEN [err |-> Err("invalid URN format: must contain at least three segments after 'urn:ccrn:'", "", ""),
                  ccrn |-> ""]
            ELSE [err |-> NoErr, ccrn |-> parts[1] \o "/" \o parts[2]]
    IN  split(Split(TrimPrefix(urn, "urn:ccrn:"), "/"))

\* the loop of parseURNFields over the template's segments; parts[i] is an
\* index expression, out of range it is a runtime fault
RECURSIVE urnSegments(_, _, _, _)
urnSegments(templateParts, parts, i, fields) ==
    IF i > Len(templateParts) THEN FieldsOK(fields)
    ELSE LET t == templateParts[i]
         IN  IF HasPrefix(t, "<") /\ HasSuffix(t, ">")
             THEN IF i > Len(parts) THEN FieldsPanic
                  ELSE urnSegments(templateParts, parts, i + 1,
                                   (SubSeq(t, 2, Len(t) - 1) :> parts[i]) @@ fields)
             ELSE IF i > Len(parts) THEN FieldsPanic
             ELSE IF t = "<ccrn>"
                  THEN urnSegments(templateParts, parts, i + 1, ("ccrn" :> parts[i]) @@ fields)
             ELSE IF t # parts[i]
                  THEN FieldsErr(Err("URN segment does not match template", parts[i], t))
             ELSE urnSegments(templateParts, parts, i + 1, fields)

\* the number of pieces the URN body is cut into (the n of strings.SplitN)
urnSplitCount(templateParts) == Len(templateParts)

parseURNFields(urn, urnTemplate) ==
    IF ~HasPrefix(urn, "urn:ccrn:")
    THEN FieldsErr(Err("invalid URN format: must start with 'urn:ccrn:'", "", ""))
    ELSE IF ~HasPrefix(urnTemplate, "urn:ccrn:")
    THEN FieldsErr(Err("invalid URN template: must start with 'urn:ccrn:'", "", ""))
    ELSE LET checked(r) ==
                 IF r.fault # "none" \/ r.err # NoErr THEN r
                 ELSE IF "ccrn" \notin DOMAIN r.fields
                      THEN FieldsErr(Err("missing required field: ccrn", "", ""))
                 ELSE r
             matched(templateParts, parts) ==
                 IF Len(parts) < Len(templateParts)
                 THEN FieldsErr(Err("URN and template do not match in segment count. Expected format ",
                                    urnTemplate, urn))
                 ELSE checked(urnSegments(templateParts, parts, 1, NoFields))
             \* parts := make([]string, len(tmpParts)-1); parts[0] = tmpParts[0] + "/" + tmpParts[1]
             joined(templateParts, tmpParts) ==
                 IF Len(tmpParts) < 2 THEN FieldsPanic
                 ELSE matched(templateParts,
                              [i \in 1..(Len(tmpParts) - 1) |->
                                  IF i = 1 THEN tmpParts[1] \o "/" \o tmpParts[2]
                                  ELSE tmpParts[i + 1]])
             cut(body, templateParts) ==
                 joined(templateParts, SplitN(body, "/", urnSplitCount(templateParts)))
         IN  cut(TrimPrefix(urn, "urn:ccrn:"), Split(TrimPrefix(urnTemplate, "urn:ccrn:"), "/"))

---------------------------------------------------------------------------
(* pkg/apis: ParsedResource.  A *ParsedResource is a record; nil is        *)
(* NilParsed.                                                              *)

NilParsed == [nil |-> TRUE, Format |-> "", Fields |-> NoFields, Raw |-> "", UrnTemplate |-> ""]

ParsedResource(format, fields, raw) ==
    [nil |-> FALSE, Format |-> format, Fields |-> fields, Raw |-> raw, UrnTemplate |-> ""]

CCRNKey(p) == IF "ccrn" \in DOMAIN p.Fields THEN p.Fields["ccrn"] ELSE ""

Version(p) ==
    IF "ccrn" \in DOMAIN p.Fields
    THEN LET second(parts) == IF Len(parts) > 1 THEN parts[2] ELSE ""
         IN  second(Split(p.Fields["ccrn"], "/"))
    ELSE ""

CCRNName(p) ==
    IF "ccrn" \in DOMAIN p.Fields THEN SplitN(p.Fields["ccrn"], "/", 2)[1] ELSE ""

GetKind(p) ==
    IF "ccrn" \in DOMAIN p.Fields THEN Split(p.Fields["ccrn"], ".")[1] ELSE ""

\* the object handed to schema validation: every field but "metadata",
\* "ccrn" always present
ToResourceMap(p) ==
    [k \in (DOMAIN p.Fields \ {"metadata"}) \cup {"ccrn"} |->
        IF k = "ccrn" THEN CCRNKey(p) ELSE p.Fields[k]]

\* all orders in which a range over the map may visit its keys
Orders(S) == {q \in [1..Cardinality(S) -> S] : \A i, j \in 1..Cardinality(S) : q[i] = q[j] => i = j}

RECURSIVE urnReplace(_, _, _)
urnReplace(tmpl, fields, order) ==
    IF order = <<>> THEN tmpl
    ELSE urnReplace(Replace1(tmpl, "<" \o Head(order) \o ">", fields[Head(order)]), fields, Tail(order))

\* ParsedResource.URN(template): the strings it may return; the range over
\* p.Fields visits the keys in an order Go leaves unspecified
URN(p, tmpl) ==
    LET t == IF tmpl = "" THEN p.UrnTemplate ELSE tmpl
    IN  IF t = "" THEN {""}
        ELSE {urnReplace(t, p.Fields, order) : order \in Orders(DOMAIN p.Fields)}

---------------------------------------------------------------------------
(* Type-definition documents.  A document is what yaml.Unmarshal makes of  *)
(* one sub-document of a file (or of one item of the control plane's       *)
(* listing): yaml is "ok", "bad" (does not parse) or "empty" (blank or     *)
(* comments only).  A version's Schema: nil (no schema block), openAPI     *)
(* (the block carries an openAPIV3Schema), and what the schema demands:    *)
(* the required field names and the values its patterns refuse.            *)

CRDKind == "CustomResourceDefinition"

SchemaOf(required, refused) ==
    [nil |-> FALSE, openAPI |-> TRUE, required |-> required, refused |-> refused]
NoOpenAPISchema == [nil |-> FALSE, openAPI |-> FALSE, required |-> {}, refused |-> {}]
NilSchema == [nil |-> TRUE, openAPI |-> FALSE, required |-> {}, refused |-> {}]

VersionOf(name, served, schema) == [Name |-> name, Served |-> served, Schema |-> schema]

CRDDoc(kind, name, group, namesKind, versions, annotations) ==
    [yaml |-> "ok", Kind |-> kind, Name |-> name, Group |-> group, NamesKind |-> namesKind,
     Plural |-> name \o "s", Singular |-> name, Versions |-> versions,
     Annotations |-> annotations]

NilCRD == [yaml |-> "nil", Kind |-> "", Name |-> "", Group |-> "", NamesKind |-> "",
           Plural |-> "", Singular |-> "", Versions |-> <<>>, Annotations |-> NoFields]
BadYAML == [NilCRD EXCEPT !.yaml = "bad"]
EmptyDoc == [NilCRD EXCEPT !.yaml = "empty"]

\* CRDInfo, and the nil *CRDInfo
CRDInfo(crd, version, urnFormat) ==
    [nil |-> FALSE, Name |-> crd.Name, Plural |-> crd.Plural, Singular |-> crd.Singular,
     Group |-> crd.Group, Kind |-> crd.NamesKind, Version |-> version.Name,
     Schema |-> version.Schema, URNFormat |-> urnFormat]
NilCRDInfo ==
    [nil |-> TRUE, Name |-> "", Plural |-> "", Singular |-> "", Group |-> "", Kind |-> "",
     Version |-> "", Schema |-> NilSchema, URNFormat |-> ""]

\* what ValidateCustomResource reports for an object against a schema
SchemaErrors(schema, obj) ==
    {<<"Required value", f>> : f \in schema.required \ DOMAIN obj}
        \cup {<<"Invalid value", k>> : k \in {x \in DOMAIN obj : obj[x] \in schema.refused}}

---------------------------------------------------------------------------
(* validation.FilesystemBackend: the Static Directory.  Its operations on  *)
(* the directory record fb = [crds, crdsByFile, validators, loadedPaths,   *)
(* ccrnGroup]; a map is a function whose domain is the set of its keys.    *)

EmptyMap == [k \in {} |-> NilCRDInfo]

NewOfflineBackend(ccrnGroup) ==
    [crds |-> EmptyMap, crdsByFile |-> EmptyMap, validators |-> EmptyMap,
     loadedPaths |-> <<>>, ccrnGroup |-> ccrnGroup]

\* a key that keeps the letters as the definition writes them
keyAsWritten(group, version, kind) == kind \o "." \o group \o "/" \o version

getCRDKey(group, version, kind) == ToLower(kind \o "." \o group \o "/" \o version)

URNTemplateAnnotation(version) == "ccrn/" \o version \o ".urn-template"

extractURNTemplate(crd, version) ==
    IF URNTemplateAnnotation(version) \in DOMAIN crd.Annotations
    THEN crd.Annotations[URNTemplateAnnotation(version)]
    ELSE ""

validateCRDStructure(crd) ==
    IF crd.Kind # CRDKind THEN Err("expected kind, got", CRDKind, crd.Kind)
    ELSE IF crd.Group = "" THEN Err("CRD spec.group cannot be empty", "", "")
    ELSE IF crd.NamesKind = "" THEN Err("CRD spec.names.kind cannot be empty", "", "")
    ELSE IF Len(crd.Versions) = 0 THEN Err("CRD must have at least one version", "", "")
    ELSE IF ~\E i \in 1..Len(crd.Versions) :
                /\ crd.Versions[i].Name # ""
                /\ ~crd.Versions[i].Schema.nil
                /\ crd.Versions[i].Schema.openAPI
         THEN Err("CRD must have at least one version with a valid OpenAPI schema", "", "")
    ELSE NoErr

\* a filter that lets every group through
relevantAlways(fbr, crd) == TRUE

isCCRNRelevant(fbr, crd) == Contains(crd.Group, fbr.ccrnGroup)

\* a createSchemaValidator that fails for every version
buildsNoValidator(version) == FALSE

\* createSchemaValidator: whether it stores a validator for the version
createSchemaValidator(version) == ~version.Schema.nil /\ version.Schema.openAPI

\* a storeCRD that stores nothing
storesNothing(fbr, crd, i) == [fault |-> "none", fb |-> fbr]

\* storeCRD, all of it under crdsMutex.Lock: the directory afterwards, or a
\* fault (version.Schema.OpenAPIV3Schema of a served version without schema)
RECURSIVE storeVersions(_, _, _)
storeVersions(fbr, crd, i) ==
    IF i > Len(crd.Versions) THEN [fault |-> "none", fb |-> fbr]
    ELSE LET store(version, crdKey, info) ==
                 IF ~version.Served THEN storeVersions(fbr, crd, i + 1)
                 ELSE IF version.Schema.nil THEN [fault |-> "panic", fb |-> fbr]
                 ELSE IF createSchemaValidator(version)
                 THEN storeVersions([fbr EXCEPT !.crds = (crdKey :> info) @@ @,
                                                !.validators = (crdKey :> version.Schema) @@ @],
                                    crd, i + 1)
                 ELSE storeVersions([fbr EXCEPT !.crds = (crdKey :> info) @@ @], crd, i + 1)
         IN  store(crd.Versions[i],
                   getCRDKey(crd.Group, crd.Versions[i].Name, crd.NamesKind),
                   CRDInfo(crd, crd.Versions[i], extractURNTemplate(crd, crd.Versions[i].Name)))

storeCRD(fbr, crd) == storeVersions(fbr, crd, 1)

\* processSingleDocument: (crd or nil, error) and the directory afterwards
processSingleDocument(fbr, document) ==
    IF document.yaml # "ok"
    THEN [fault |-> "none", fb |-> fbr, crd |-> NilCRD, err |-> Err("failed to parse YAML", "", "")]
    ELSE IF validateCRDStructure(document) # NoErr
    THEN [fault |-> "none", fb |-> fbr, crd |-> NilCRD,
          err |-> Err("invalid CRD structure", validateCRDStructure(document).tag, "")]
    ELSE IF ~isCCRNRelevant(fbr, document)
    THEN [fault |-> "none", fb |-> fbr, crd |-> NilCRD, err |-> NoErr]
    ELSE LET stored(st) ==
                 [fault |-> st.fault, fb |-> st.fb,
                  crd |-> IF st.fault = "none" THEN document ELSE NilCRD, err |-> NoErr]
         IN  stored(storeCRD(fbr, document))

isEmptyDocument(document) == document.yaml = "empty"

\* CRDLoadingResult
NewLoadingResult ==
    [ProcessedFiles |-> 0, ProcessedCRDs |-> 0, SkippedCRDs |-> 0, ErrorCount |-> 0,
     Errors |-> <<>>, LoadedCRDKeys |-> <<>>]

\* the keys of a definition's served versions, in the order of the versions
servedKeys(crd) ==
    LET served == SelectSeq(crd.Versions, LAMBDA version : version.Served)
    IN  [i \in 1..Len(served) |-> getCRDKey(crd.Group, served[i].Name, crd.NamesKind)]

\* one turn of processFile's loop over the documents of a file: the state
\* st = [fault, fb, result, loadedCRDs] after document number i
processDocument(st, document, filePath, i) ==
    IF isEmptyDocument(document) THEN st
    ELSE LET counted(r) ==
                 IF r.fault # "none" THEN [st EXCEPT !.fault = r.fault, !.fb = r.fb]
                 ELSE IF r.err # NoErr
                 THEN [st EXCEPT !.result.Errors = Append(@, Err("file, document", filePath, r.err.tag)),
                                 !.result.ErrorCount = @ + 1]
                 ELSE IF r.crd.yaml = "ok"
                 THEN [st EXCEPT !.fb = r.fb,
                                 !.loadedCRDs = Append(@, r.crd),
                                 !.result.ProcessedCRDs = @ + 1,
                                 !.result.LoadedCRDKeys = @ \o servedKeys(r.crd)]
                 ELSE [st EXCEPT !.result.SkippedCRDs = @ + 1]
         IN  counted(processSingleDocument(st.fb, document))

\* the end of processFile: crdsByFile[filePath] = loadedCRDs, under the lock
storeFile(fbr, filePath, loadedCRDs) ==
    IF Len(loadedCRDs) > 0
    THEN [fbr EXCEPT !.crdsByFile = (filePath :> loadedCRDs) @@ fbr.crdsByFile]
    ELSE fbr

\* the files of the model's disk are "a.yaml" and "b.yaml" in the working
\* directory and "sub/c.yaml" in its subdirectory sub
isYAMLFile(filePath) == HasSuffix(ToLower(filePath), ".yaml") \/ HasSuffix(ToLower(filePath), ".yml")

\* the file names of the model, in the order Glob returns them (sorted)
AllFiles == <<"a.yaml", "b.yaml", "sub/c.yaml">>

SelectFiles(keep) == SelectSeq(AllFiles, LAMBDA f : f \in keep)

\* filepath.Match on one path element: "*" and "**" match every element,
\* "*.ext" every element that ends in .ext, another pattern itself
MatchElement(pattern, name) ==
    IF pattern = "*" \/ pattern = "**" THEN TRUE
    ELSE IF HasPrefix(pattern, "*") THEN HasSuffix(name, SubSeq(pattern, 2, Len(pattern)))
    ELSE pattern = name

\* a pattern matches a path of as many elements, element by element
MatchPath(pattern, path) ==
    /\ Len(Split(pattern, "/")) = Len(Split(path, "/"))
    /\ \A i \in 1..Len(Split(pattern, "/")) :
           MatchElement(Split(pattern, "/")[i], Split(path, "/")[i])

\* filepath.Glob: (matches, error); "[" is a malformed pattern
Glob(dsk, pattern) ==
    IF pattern = "[" THEN [err |-> Err("failed to resolve glob pattern ", pattern, "syntax error in pattern"),
                           files |-> <<>>]
    ELSE [err |-> NoErr, files |-> SelectFiles({f \in DOMAIN dsk : MatchPath(pattern, f)})]

\* the value LoadCRDs returns once every matched file is processed
loadCRDsReturn(result) ==
    IF result.ProcessedCRDs = 0 /\ Len(result.Errors) > 0
    THEN Err("failed to load any CRDs: ", result.Errors[1].b, "")
    ELSE NoErr

\* processFile run to its end by one goroutine alone
RECURSIVE processDocuments(_, _, _, _)
processDocuments(st, documents, filePath, i) ==
    IF i > Len(documents) \/ st.fault # "none" THEN st
    ELSE processDocuments(processDocument(st, documents[i], filePath, i), documents, filePath, i + 1)

processFile(st, dsk, filePath) ==
    LET finish(done) ==
            IF done.fault # "none" THEN done
            ELSE [done EXCEPT !.fb = storeFile(done.fb, filePath, done.loadedCRDs)]
    IN  finish(processDocuments([st EXCEPT !.result.ProcessedFiles = @ + 1, !.loadedCRDs = <<>>],
                                dsk[filePath], filePath, 1))

RECURSIVE processFiles(_, _, _, _)
processFiles(st, dsk, matchedFiles, i) ==
    IF i > Len(matchedFiles) \/ st.fault # "none" THEN st
    ELSE processFiles(IF isYAMLFile(matchedFiles[i]) THEN processFile(st, dsk, matchedFiles[i]) ELSE st,
                      dsk, matchedFiles, i + 1)

\* LoadCRDs run to its end by one goroutine alone: [fault, fb, result, err]
LoadCRDs(fbr, dsk, pattern) ==
    LET st0 == [fault |-> "none", fb |-> fbr, result |-> NewLoadingResult, loadedCRDs |-> <<>>]
        loaded(st) ==
            IF st.fault # "none"
            THEN [fault |-> st.fault, fb |-> st.fb, result |-> st.result, err |-> NoErr]
            ELSE [fault |-> "none",
                  fb |-> [st.fb EXCEPT !.loadedPaths = Append(@, pattern)],
                  result |-> st.result,
                  err |-> loadCRDsReturn(st.result)]
        matched(g) ==
            IF g.err # NoErr
            THEN [fault |-> "none", fb |-> fbr, result |-> NewLoadingResult, err |-> g.err]
            ELSE IF Len(g.files) = 0
            THEN [fault |-> "none", fb |-> fbr, result |-> NewLoadingResult,
                  err |-> Err("no files found matching pattern: ", pattern, "")]
            ELSE loaded(processFiles(st0, dsk, g.files, 1))
    IN  matched(Glob(dsk, pattern))

\* filepath.Join(dir, rest): "." names the working directory
JoinPath(dir, rest) == IF dir = "." THEN rest ELSE dir \o "/" \o rest

\* the loop of LoadCRDsFromDirectory over its patterns; totalLoaded is set
\* to len(fb.crds) after each LoadCRDs that returned nil
RECURSIVE loadPatterns(_, _, _, _)
loadPatterns(st, dsk, patterns, i) ==
    IF i > Len(patterns) \/ st.fault # "none" THEN st
    ELSE LET tried(l) ==
                 loadPatterns([fault |-> l.fault, fb |-> l.fb,
                               totalLoaded |-> IF l.fault = "none" /\ l.err = NoErr
                                               THEN Cardinality(DOMAIN l.fb.crds)
                                               ELSE st.totalLoaded,
                               allErrors |-> IF l.fault = "none" /\ l.err # NoErr
                                             THEN Append(st.allErrors, Err("pattern ", patterns[i], l.err.tag))
                                             ELSE st.allErrors],
                              dsk, patterns, i + 1)
         IN  tried(LoadCRDs(st.fb, dsk, patterns[i]))

\* LoadCRDsFromDirectory run to its end by one goroutine alone:
\* [fault, fb, err, totalLoaded, allErrors]
LoadCRDsFromDirectory(fbr, dsk, dir) ==
    LET returned(st) ==
            [fault |-> st.fault, fb |-> st.fb, totalLoaded |-> st.totalLoaded,
             allErrors |-> st.allErrors,
             err |-> IF st.fault = "none" /\ st.totalLoaded = 0 /\ Len(st.allErrors) > 0
                     THEN Err("failed to load CRDs from directory ", dir, st.allErrors[1].b)
                     ELSE NoErr]
    IN  returned(loadPatterns([fault |-> "none", fb |-> fbr, totalLoaded |-> 0, allErrors |-> <<>>],
                              dsk,
                              <<JoinPath(dir, "*.yaml"), JoinPath(dir, "*.yml"),
                                JoinPath(dir, "**/*.yaml"), JoinPath(dir, "**/*.yml")>>,
                              1))

\* the clearing step of Refresh, under crdsMutex.Lock
clearIndex(fbr) ==
    [fbr EXCEPT !.crds = EmptyMap, !.crdsByFile = EmptyMap, !.validators = EmptyMap]

\* Refresh run to its end by one goroutine alone: [fault, fb, err]
RECURSIVE reloadPaths(_, _, _, _)
reloadPaths(r, dsk, paths, i) ==
    IF i > Len(paths) \/ r.fault # "none" THEN r
    ELSE LET reloaded(l) ==
                 reloadPaths([fault |-> l.fault, fb |-> l.fb,
                              err |-> IF l.err # NoErr /\ r.err = NoErr
                                      THEN Err("refresh completed with errors: ", paths[i], l.err.tag)
                                      ELSE r.err],
                             dsk, paths, i + 1)
         IN  reloaded(LoadCRDs(r.fb, dsk, paths[i]))

FsRefresh(fbr, dsk) ==
    IF Len(fbr.loadedPaths) = 0 THEN [fault |-> "none", fb |-> fbr, err |-> NoErr]
    ELSE reloadPaths([fault |-> "none", fb |-> clearIndex(fbr), err |-> NoErr],
                     dsk, fbr.loadedPaths, 1)

\* the lookups, each under crdsMutex.RLock
FsGetCRD(fbr, ccrnVersion) ==
    IF ccrnVersion \in DOMAIN fbr.crds
    THEN [info |-> fbr.crds[ccrnVersion], err |-> NoErr]
    ELSE [info |-> NilCRDInfo, err |-> Err("CRD for resource type not found", ccrnVersion, "")]

FsIsResourceTypeSupported(fbr, ccrnVersion) == ccrnVersion \in DOMAIN fbr.crds

\* a ValidateResource that looks at no schema
validateResourceUnchecked(fbr, parsedCCRN) == NoErr

\* ValidateResource on a non-nil *ParsedResource
FsValidateResource(fbr, parsedCCRN) ==
    LET judged(ccrnVersion, errs) ==
            IF errs # {}
            THEN Err("validation failed for ", ccrnVersion,
                     IF \E e \in errs : e[1] = "Required value"
                     THEN "Required value" ELSE "Invalid value")
            ELSE NoErr
        looked(ccrnVersion) ==
            IF ccrnVersion \notin DOMAIN fbr.validators
            THEN Err("no schema validator available for ", ccrnVersion, "")
            ELSE judged(ccrnVersion,
                        SchemaErrors(fbr.validators[ccrnVersion], ToResourceMap(parsedCCRN)))
    IN  looked(CCRNKey(parsedCCRN))

\* GetURNTemplate: the (template, error) pairs it may return; the range over
\* crdsByFile visits the files in an order Go leaves unspecified, and the
\* first definition named crdName that it meets decides
FsGetURNTemplate(fbr, crdName, version) ==
    LET annotationKey == URNTemplateAnnotation(version)
        firstMatch(crds) == crds[Min({i \in 1..Len(crds) : crds[i].Name = crdName})]
        answer(crd) ==
            IF annotationKey \in DOMAIN crd.Annotations /\ crd.Annotations[annotationKey] # ""
            THEN [template |-> crd.Annotations[annotationKey], err |-> NoErr]
            ELSE [template |-> "",
                  err |-> Err("URN template annotation not found in CRD", annotationKey, crdName)]
        holders == {f \in DOMAIN fbr.crdsByFile :
                       \E i \in 1..Len(fbr.crdsByFile[f]) : fbr.crdsByFile[f][i].Name = crdName}
    IN  IF holders = {}
        THEN {[template |-> "", err |-> Err("CRD not found in loaded CRDs", crdName, "")]}
        ELSE {answer(firstMatch(fbr.crdsByFile[f])) : f \in holders}

---------------------------------------------------------------------------
(* validation.KubernetesBackend: the Live Directory.  The control plane is *)
(* cl = [items, up]: the definitions a List returns now, and whether a     *)
(* call to it succeeds.  The directory record is kbr = [ccrns, ccrnGroup]. *)

NewKubernetesIndex(ccrnGroup) == [ccrns |-> EmptyMap, ccrnGroup |-> ccrnGroup]

\* the body of Refresh's loop for one listed definition: its served
\* versions entered into the map m
RECURSIVE cacheVersions(_, _, _)
cacheVersions(m, crd, i) ==
    IF i > Len(crd.Versions) THEN m
    ELSE LET cache(version, crdKey, urnFormat) ==
                 IF version.Served
                 THEN cacheVersions((crdKey :> CRDInfo(crd, version, urnFormat)) @@ m, crd, i + 1)
                 ELSE cacheVersions(m, crd, i + 1)
         IN  cache(crd.Versions[i],
                   getCRDKey(crd.Group, crd.Versions[i].Name, crd.NamesKind),
                   extractURNTemplate(crd, crd.Versions[i].Name))

\* the map Refresh builds from a listing, definition by definition from i on
RECURSIVE cacheItems(_, _, _, _)
cacheItems(m, items, ccrnGroup, i) ==
    IF i > Len(items) THEN m
    ELSE cacheItems(IF Contains(items[i].Group, ccrnGroup) THEN cacheVersions(m, items[i], 1) ELSE m,
                    items, ccrnGroup, i + 1)

\* the index a Refresh that listed `items` installs
FilteredListing(items, ccrnGroup) == cacheItems(EmptyMap, items, ccrnGroup, 1)

\* Refresh run to its end by one goroutine alone: [kb, err]
K8sRefresh(kbr, cl) ==
    IF ~cl.up THEN [kb |-> kbr, err |-> Err("failed to list CRDs: ", "unavailable", "")]
    ELSE [kb |-> [kbr EXCEPT !.ccrns = FilteredListing(cl.items, kbr.ccrnGroup)], err |-> NoErr]

\* the miss-triggered refresh of GetCRD (lines 83-87)
refreshOnMiss(kbr, cl) == K8sRefresh(kbr, cl).kb

\* GetCRD run to its end by one goroutine alone: [kb, info, err, refreshes]
K8sGetCRD(kbr, cl, crdVersion) ==
    IF crdVersion \in DOMAIN kbr.ccrns
    THEN [kb |-> kbr, info |-> kbr.ccrns[crdVersion], err |-> NoErr, refreshes |-> 0]
    ELSE LET again(after) ==
                 IF crdVersion \in DOMAIN after.ccrns
                 THEN [kb |-> after, info |-> after.ccrns[crdVersion], err |-> NoErr, refreshes |-> 1]
                 ELSE [kb |-> after, info |-> NilCRDInfo,
                       err |-> Err("CRD for resource type not found", crdVersion, ""), refreshes |-> 1]
         IN  again(refreshOnMiss(kbr, cl))

\* IsResourceTypeSupported: [kb, supported, refreshes]
K8sIsResourceTypeSupported(kbr, cl, ccrnVersion) ==
    [kb |-> kbr, supported |-> ccrnVersion \in DOMAIN kbr.ccrns, refreshes |-> 0]

\* GetURNTemplate asks the control plane for the definition named crdName
K8sGetURNTemplate(cl, crdName, version) ==
    LET annotationKey == URNTemplateAnnotation(version)
        named == {i \in 1..Len(cl.items) : cl.items[i].Name = crdName}
    IN  IF ~cl.up \/ named = {}
        THEN [template |-> "", err |-> Err("failed to get CRD", crdName, "")]
        ELSE LET crd == cl.items[Min(named)]
             IN  IF annotationKey \in DOMAIN crd.Annotations /\ crd.Annotations[annotationKey] # ""
                 THEN [template |-> crd.Annotations[annotationKey], err |-> NoErr]
                 ELSE [template |-> "", err |-> Err("URN Template not found in CRD", annotationKey, crdName)]

\* the control plane's admission of an object of the type crdVersion
admit(cl, crdVersion, obj) ==
    LET answer(served) ==
            IF ~cl.up THEN Err("failed to create resource: ", "unavailable", "")
            ELSE IF crdVersion \notin DOMAIN served
            THEN Err("failed to create resource: ", "the server could not find the requested resource", "")
            ELSE IF SchemaErrors(served[crdVersion].Schema, obj) # {}
            THEN Err("failed to create resource: ", "is invalid", crdVersion)
            ELSE NoErr
    IN  answer(FilteredListing(cl.items, ""))

\* ValidateResource on a non-nil *ParsedResource: [kb, err, refreshes]
K8sValidateResource(kbr, cl, parsedCCRN) ==
    LET created(g) ==
            IF g.err # NoErr THEN [kb |-> g.kb, err |-> g.err, refreshes |-> g.refreshes]
            ELSE [kb |-> g.kb, err |-> admit(cl, CCRNKey(parsedCCRN), ToResourceMap(parsedCCRN)),
                  refreshes |-> g.refreshes]
    IN  created(K8sGetCRD(kbr, cl, CCRNKey(parsedCCRN)))

---------------------------------------------------------------------------
(* apis.ValidationBackend: a backend is b = [kind, fb, kb, cl, disk], kind *)
(* "fs" for the Static and "k8s" for the Live Directory.  Each call        *)
(* returns the backend afterwards with its result; `refreshes` counts the  *)
(* Refresh calls the lookup made.                                          *)

FsBackend(fbr, dsk) ==
    [kind |-> "fs", fb |-> fbr, kb |-> NewKubernetesIndex(""), cl |-> [items |-> <<>>, up |-> FALSE],
     disk |-> dsk]
K8sBackend(kbr, cl) ==
    [kind |-> "k8s", fb |-> NewOfflineBackend(""), kb |-> kbr, cl |-> cl, disk |-> EmptyMap]

BackendGetCRD(b, key) ==
    IF b.kind = "fs"
    THEN [b |-> b, info |-> FsGetCRD(b.fb, key).info, err |-> FsGetCRD(b.fb, key).err, refreshes |-> 0]
    ELSE LET of(g) ==
                 [b |-> [b EXCEPT !.kb = g.kb], info |-> g.info, err |-> g.err, refreshes |-> g.refreshes]
         IN  of(K8sGetCRD(b.kb, b.cl, key))

BackendIsResourceTypeSupported(b, key) ==
    IF b.kind = "fs"
    THEN [b |-> b, supported |-> FsIsResourceTypeSupported(b.fb, key), refreshes |-> 0]
    ELSE LET of(g) ==
                 [b |-> [b EXCEPT !.kb = g.kb], supported |-> g.supported, refreshes |-> g.refreshes]
         IN  of(K8sIsResourceTypeSupported(b.kb, b.cl, key))

BackendValidateResource(b, parsed) ==
    IF b.kind = "fs"
    THEN [b |-> b, err |-> FsValidateResource(b.fb, parsed), refreshes |-> 0]
    ELSE LET of(g) == [b |-> [b EXCEPT !.kb = g.kb], err |-> g.err, refreshes |-> g.refreshes]
         IN  of(K8sValidateResource(b.kb, b.cl, parsed))

BackendGetURNTemplate(b, crdName, version) ==
    IF b.kind = "fs" THEN FsGetURNTemplate(b.fb, crdName, version)
    ELSE {K8sGetURNTemplate(b.cl, crdName, version)}

---------------------------------------------------------------------------
(* ResourceParser.Parse and CCRNValidator.ValidateCCRN.  A backend call is *)
(* logged as [op, key, ok].  fault: "none", "panic" (a Go run-time panic)  *)
(* or "overflow" (Parse calling itself without end).                       *)

Call(op, key, ok) == [op |-> op, key |-> key, ok |-> ok]

ParseOK(parsed, calls) == [fault |-> "none", parsed |-> parsed, err |-> NoErr, calls |-> calls]
ParseErr(err, calls) == [fault |-> "none", parsed |-> NilParsed, err |-> err, calls |-> calls]
ParseFault(fault, calls) == [fault |-> fault, parsed |-> NilParsed, err |-> NoErr, calls |-> calls]

\* Parse with a concrete template (lines 514-525)
parseWithTemplate(input, urnTemplate, calls) ==
    IF ~HasPrefix(urnTemplate, "urn:ccrn:")
    THEN ParseErr(Err("invalid URN template: must start with 'urn:ccrn:'", "", ""), calls)
    ELSE LET parsed(r) ==
                 IF r.fault # "none" THEN ParseFault(r.fault, calls)
                 ELSE IF r.err # NoErr THEN ParseErr(r.err, calls)
                 ELSE ParseOK(ParsedResource("URN", r.fields, input), calls)
         IN  parsed(parseURNFields(input, urnTemplate))

\* a resolution that does not look at the error of the template lookup
dropsLookupError(input, t, calls) == parseWithTemplate(input, t.template, calls)

\* Parse without a concrete template (lines 493-512), given the backend's
\* answer t to GetURNTemplate: the answer does not change from one call to
\* the next, so Parse(input, template) with the default (or no) template
\* returned makes the same call again, without end
parseResolved(input, t, calls) ==
    IF t.err # NoErr
    THEN ParseErr(Err("failed to get URN template: ", t.err.tag, t.err.a), calls)
    ELSE IF t.template = "" \/ t.template = DEFAULT_URN_TEMPLATE
    THEN ParseFault("overflow", calls)
    ELSE parseWithTemplate(input, t.template, calls)

\* a Parse that takes every input for a field list
parsesAsFieldList(b, input, urnTemplate) ==
    {ParseOK(ParsedResource("CCRN", "ccrn" :> input, input), <<>>)}

\* Parse(input, urnTemplate): the results it may return
Parse(b, input, urnTemplate) ==
    IF HasPrefix(input, "ccrn=")
    THEN {IF r.err # NoErr THEN ParseErr(r.err, <<>>)
          ELSE ParseOK(ParsedResource("CCRN", r.fields, input), <<>>) :
              r \in {parseCCRNFields(input)}}
    ELSE IF HasPrefix(input, "urn:ccrn:")
    THEN IF urnTemplate = "" \/ urnTemplate = DEFAULT_URN_TEMPLATE
         THEN LET resolve(parsedResource) ==
                      {parseResolved(input, t,
                                     <<Call("GetURNTemplate", CCRNName(parsedResource), t.err = NoErr)>>) :
                          t \in BackendGetURNTemplate(b, CCRNName(parsedResource),
                                                      Version(parsedResource))}
                  keyed(f) ==
                      IF f.err # NoErr THEN {ParseErr(f.err, <<>>)}
                      ELSE resolve(ParsedResource("URN", "ccrn" :> f.ccrn, input))
              IN  keyed(parseURNCCRNField(input))
         ELSE {parseWithTemplate(input, urnTemplate, <<>>)}
    ELSE {ParseErr(Err("unknown format: must start with 'ccrn=' or 'urn:ccrn:'", "", ""), <<>>)}

\* a *ValidationResult with the error returned beside it
Verdict(valid, parsed, errors, err, calls, b, refreshes) ==
    [fault |-> "none", nil |-> FALSE, Valid |-> valid, ParsedCCRN |-> parsed, Errors |-> errors,
     err |-> err, calls |-> calls, b |-> b, refreshes |-> refreshes]
\* the call did not return
Faulted(fault, calls, b, refreshes) ==
    [fault |-> fault, nil |-> TRUE, Valid |-> FALSE, ParsedCCRN |-> NilParsed, Errors |-> <<>>,
     err |-> NoErr, calls |-> calls, b |-> b, refreshes |-> refreshes]

Text(str) == Err(str, "", "")

\* a type-support check that ends no call
rejectsNothing(parsed, supported) == FALSE

\* the type-support check of ValidateCCRN (line 48): whether it ends the call
rejectsUnsupported(parsed, supported) == ~parsed.nil /\ ~supported

\* ValidateCCRN from line 48 on
validateParsed(b, parsed, calls, refreshes) ==
    LET checked(key, calls1, n1, v) ==
            IF v.err # NoErr
            THEN Verdict(FALSE, parsed, <<v.err>>, v.err,
                         Append(calls1, Call("ValidateResource", key, FALSE)), v.b, n1 + v.refreshes)
            ELSE Verdict(TRUE, parsed, <<>>, NoErr,
                         Append(calls1, Call("ValidateResource", key, TRUE)), v.b, n1 + v.refreshes)
        asked(key, s, calls1, n1) ==
            IF rejectsUnsupported(parsed, s.supported)
            THEN Verdict(FALSE, parsed, <<Text("Resource type not supported: " \o key)>>, NoErr,
                         calls1, s.b, n1)
            ELSE checked(key, calls1, n1, BackendValidateResource(s.b, parsed))
        supported(key, s) ==
            asked(key, s, Append(calls, Call("IsResourceTypeSupported", key, s.supported)),
                  refreshes + s.refreshes)
    IN  \* parsed != nil && ...: a nil pointer skips the check, and
        \* ValidateResource, reading parsedCCRN.Fields, faults
        IF parsed.nil
        THEN Faulted("panic", Append(calls, Call("ValidateResource", "", FALSE)), b, refreshes)
        ELSE supported(CCRNKey(parsed), BackendIsResourceTypeSupported(b, CCRNKey(parsed)))

\* ValidateCCRN on a URN the first Parse accepted (lines 36-46)
validateURN(b, ccrnStr, parsed, calls) ==
    LET got(key, g, calls1) ==
            IF g.err # NoErr
            THEN {Verdict(FALSE, parsed,
                          <<Text("A CCRN definition for %s could not be retrieved: %s"), Text(key), g.err>>,
                          g.err, calls1, g.b, g.refreshes)}
            ELSE {IF p.fault # "none"
                  THEN Faulted(p.fault, calls1 \o p.calls, g.b, g.refreshes)
                  \* the error of this second Parse is not looked at
                  ELSE validateParsed(g.b, p.parsed, calls1 \o p.calls, g.refreshes) :
                      p \in Parse(g.b, ccrnStr, g.info.URNFormat)}
        looked(key, g) == got(key, g, Append(calls, Call("GetCRD", key, g.err = NoErr)))
    IN  looked(CCRNKey(parsed), BackendGetCRD(b, CCRNKey(parsed)))

\* ValidateCCRN(ccrnStr): the verdicts it may return
ValidateCCRN(b, ccrnStr) ==
    UNION {IF p.fault # "none" THEN {Faulted(p.fault, p.calls, b, 0)}
           ELSE IF p.err # NoErr
           THEN {Verdict(FALSE, NilParsed, <<p.err>>, p.err, p.calls, b, 0)}
           ELSE IF p.parsed.Format = "URN" THEN validateURN(b, ccrnStr, p.parsed, p.calls)
           ELSE {validateParsed(b, p.parsed, p.calls, 0)} :
               p \in Parse(b, ccrnStr, DEFAULT_URN_TEMPLATE)}

---------------------------------------------------------------------------
(* webhook.WebhookServer: the admission handler.  A request carries the    *)
(* submitted object: json is "ok" when it decodes into a CCRN, and CCRN    *)
(* and URN are its spec.ccrn and spec.urn.  A response is [fault, Allowed, *)
(* Status, Message, patches, calls]; with fault other than "none" the      *)
(* handler did not return and no response was written.                     *)

Request(json, ccrn, urn) == [json |-> json, CCRN |-> ccrn, URN |-> urn]

\* a refusal that says nothing
deniesSilently(message, calls) ==
    [fault |-> "none", Allowed |-> FALSE, Status |-> "Failure", Message |-> Text(""),
     patches |-> <<>>, calls |-> calls]

Deny(message, calls) ==
    [fault |-> "none", Allowed |-> FALSE, Status |-> "Failure", Message |-> message,
     patches |-> <<>>, calls |-> calls]
Allow(patches, calls) ==
    [fault |-> "none", Allowed |-> TRUE, Status |-> "Success",
     Message |-> IF patches = <<>> THEN Text("CCRN is valid and target resource created")
                 ELSE Text("CCRN is valid, missing format added, and target resource created"),
     patches |-> patches, calls |-> calls]
NoResponse(fault, calls) ==
    [fault |-> fault, Allowed |-> FALSE, Status |-> "", Message |-> Text(""), patches |-> <<>>,
     calls |-> calls]

\* ParsedResource.CCRN(): the strings it may return; the range over
\* p.Fields visits the keys in an order Go leaves unspecified
CCRNString(p) ==
    IF "ccrn" \notin DOMAIN p.Fields THEN {""}
    ELSE {"ccrn=" \o p.Fields["ccrn"]
              \o Concat([i \in 1..Len(order) |-> ", " \o order[i] \o "=" \o p.Fields[order[i]]]) :
             order \in Orders(DOMAIN p.Fields \ {"ccrn"})}

\* ExtractCCRNKeyFromURN
ExtractCCRNKeyFromURN(urn) == parseURNCCRNField(urn)

\* what validateFormats returns: the parsed resource with no response
\* (passed), or a response
Passed(parsed, calls, b) == [passed |-> TRUE, parsed |-> parsed, resp |-> Deny(Text(""), calls), b |-> b]
Answered(resp, b) == [passed |-> FALSE, parsed |-> NilParsed, resp |-> resp, b |-> b]

\* validateFormats on spec.ccrn from a verdict of ValidateCCRN on (lines
\* 300-322)
judgedCCRN(v) ==
    IF v.fault # "none" THEN Answered(NoResponse(v.fault, v.calls), v.b)
    ELSE IF v.err # NoErr
    THEN Answered(Deny(Err("CCRN validation error: ", v.err.tag, v.err.a), v.calls), v.b)
    ELSE IF ~v.Valid
    THEN Answered(Deny(IF Len(v.Errors) > 0 THEN v.Errors[1] ELSE Text("Invalid CCRN format"),
                       v.calls), v.b)
    ELSE Passed(v.ParsedCCRN, v.calls, v.b)

\* validateFormats on the type key taken out of spec.urn, from a verdict of
\* ValidateCCRN on (lines 370-393)
judgedDerived(v, calls) ==
    IF v.fault # "none" THEN Answered(NoResponse(v.fault, calls \o v.calls), v.b)
    ELSE IF v.err # NoErr
    THEN Answered(Deny(Err("Derived CCRN validation error: ", v.err.tag, v.err.a), calls \o v.calls),
                  v.b)
    ELSE IF ~v.Valid
    THEN Answered(Deny(IF Len(v.Errors) > 0
                       THEN Err("Derived CCRN is invalid: ", v.Errors[1].tag, v.Errors[1].a)
                       ELSE Text("Derived CCRN is invalid"), calls \o v.calls), v.b)
    ELSE Passed(v.ParsedCCRN, calls \o v.calls, v.b)

\* validateFormats on a request with spec.urn alone (lines 325-394)
validateURNFormat(b, urn) ==
    LET derived(calls, k) ==
            IF k.err # NoErr
            THEN {Answered(Deny(Err("Failed to extract CCRN from URN: ", k.err.tag, k.err.a), calls), b)}
            ELSE {judgedDerived(v, calls) : v \in ValidateCCRN(b, k.ccrn)}
        parsedWith(calls, p) ==
            IF p.fault # "none" THEN {Answered(NoResponse(p.fault, calls \o p.calls), b)}
            ELSE IF p.err # NoErr
            THEN {Answered(Deny(Err("Failed to parse URN: ", p.err.tag, p.err.a), calls \o p.calls), b)}
            ELSE derived(calls \o p.calls, ExtractCCRNKeyFromURN(urn))
        resolved(crdName, t) ==
            IF t.err # NoErr
            THEN {Answered(Deny(Err("Failed to get URN template: ", t.err.tag, t.err.a),
                                <<Call("GetURNTemplate", crdName, FALSE)>>), b)}
            ELSE UNION {parsedWith(<<Call("GetURNTemplate", crdName, TRUE)>>, p) :
                           p \in Parse(b, urn, t.template)}
        split(parts) ==
            IF Len(parts) < 2
            THEN {Answered(Deny(Text("URN does not contain enough segments to determine CRD and version"),
                                <<>>), b)}
            ELSE UNION {resolved(parts[1], t) : t \in BackendGetURNTemplate(b, parts[1], parts[2])}
    IN  split(Split(TrimPrefix(urn, "urn:ccrn:"), "/"))

\* validateFormats(ccrn): the results it may return
validateFormats(b, ccrn) ==
    IF ccrn.CCRN = "" /\ ccrn.URN = ""
    THEN {Answered(Deny(Text("Resource must have either spec.ccrn or spec.urn defined"), <<>>), b)}
    ELSE IF ccrn.CCRN # ""
    THEN {judgedCCRN(v) : v \in ValidateCCRN(b, ccrn.CCRN)}
    ELSE validateURNFormat(b, ccrn.URN)

Patch(path, value) == [op |-> "add", path |-> path, value |-> value]
Patches(patches, calls) == [fault |-> "none", patches |-> patches, calls |-> calls]

\* generateMutationPatches(ccrn, parsedCCRN): the (patches, mutated) it may
\* return, mutated being that patches is not empty
generateMutationPatches(b, ccrn, parsedCCRN) ==
    IF ccrn.CCRN # "" /\ ccrn.URN = ""
    THEN LET rendered(calls, urn) ==
                 IF urn = "" THEN Patches(<<>>, calls)
                 ELSE Patches(<<Patch("/spec/urn", urn)>>, calls)
             looked(crdName, t) ==
                 IF t.err # NoErr
                 THEN {Patches(<<>>, <<Call("GetURNTemplate", crdName, FALSE)>>)}
                 ELSE {rendered(<<Call("GetURNTemplate", crdName, t.err = NoErr)>>, urn) :
                          urn \in URN(parsedCCRN, t.template)}
         IN  UNION {looked(CCRNName(parsedCCRN), t) :
                       t \in BackendGetURNTemplate(b, CCRNName(parsedCCRN), Version(parsedCCRN))}
    ELSE IF ccrn.URN # "" /\ ccrn.CCRN = ""
    THEN LET parsedURN(p) ==
                 IF p.fault # "none" THEN {[fault |-> p.fault, patches |-> <<>>, calls |-> p.calls]}
                 ELSE IF p.err # NoErr THEN {Patches(<<>>, p.calls)}
                 ELSE {Patches(<<Patch("/spec/ccrn", ccrnValue)>>, p.calls) :
                          ccrnValue \in CCRNString(p.parsed)}
         IN  UNION {parsedURN(p) : p \in Parse(b, ccrn.URN, DEFAULT_URN_TEMPLATE)}
    ELSE {Patches(<<>>, <<>>)}

\* handleCombinedRequest(request): the responses it may write
handleCombinedRequest(b, request) ==
    LET created(calls, patches, key, v) ==
            IF v.err # NoErr
            THEN Deny(Err("Resource validation failed: ", v.err.tag, v.err.a),
                      Append(calls, Call("ValidateResource", key, FALSE)))
            ELSE Allow(patches, Append(calls, Call("ValidateResource", key, TRUE)))
        mutated(f, m) ==
            IF m.fault # "none" THEN NoResponse(m.fault, f.resp.calls \o m.calls)
            ELSE IF f.parsed.nil
            THEN NoResponse("panic", f.resp.calls \o m.calls)
            ELSE created(f.resp.calls \o m.calls, m.patches, CCRNKey(f.parsed),
                         BackendValidateResource(f.b, f.parsed))
        validated(f) ==
            IF ~f.passed THEN {f.resp}
            ELSE {mutated(f, m) : m \in generateMutationPatches(f.b, request, f.parsed)}
    IN  IF request.json # "ok"
        THEN {Deny(Err("Failed to parse CCRN resource: ", request.json, ""), <<>>)}
        ELSE UNION {validated(f) : f \in validateFormats(b, request)}

---------------------------------------------------------------------------
(* The inputs and the sources of the model.                                *)

\* the naming authority the directories are configured with
CcrnGroup == "g"

URNTemplateT == "urn:ccrn:<ccrn>/<cluster>/<name>"
LiteralTemplateT == "urn:ccrn:t.g/v1/<cluster>/<name>"

SchemaT == SchemaOf({"cluster", "name"}, {"BAD!"})

\* the definition of type T.g, version v1, with a URN template annotation
\* (none when tmpl is "")
DocT(tmpl) ==
    CRDDoc(CRDKind, "t.g", "g", "T", <<VersionOf("v1", TRUE, SchemaT)>>,
           IF tmpl = "" THEN NoFields ELSE URNTemplateAnnotation("v1") :> tmpl)
\* type U.g: v1 served with a schema, v2 served with a schema block that has
\* no openAPIV3Schema (no validator can be built), v3 not served
DocU ==
    CRDDoc(CRDKind, "u.g", "g", "U",
           <<VersionOf("v1", TRUE, SchemaOf({}, {})), VersionOf("v2", TRUE, NoOpenAPISchema),
             VersionOf("v3", FALSE, SchemaOf({}, {}))>>,
           NoFields)
\* type U.g, v1 alone, with the URN template of T: a template naming
\* fields the schema does not require
DocUT ==
    CRDDoc(CRDKind, "u.g", "g", "U", <<VersionOf("v1", TRUE, SchemaOf({}, {}))>>,
           URNTemplateAnnotation("v1") :> URNTemplateT)
\* a definition of another naming authority
DocX == CRDDoc(CRDKind, "t.x", "x", "T", <<VersionOf("v1", TRUE, SchemaOf({}, {}))>>, NoFields)
\* a document that is no type definition
DocNoCRD == CRDDoc("ConfigMap", "cm", "g", "C", <<>>, NoFields)

DiskOf(a, b) == ("a.yaml" :> a) @@ ("b.yaml" :> b)

\* the directories the parser and the orchestrator are tried against: what
\* a LoadCRDs of "*.yaml" leaves of each of these disks
ParserDisks ==
    {DiskOf(<<DocT(URNTemplateT)>>, <<EmptyDoc>>),
     DiskOf(<<DocT(LiteralTemplateT)>>, <<DocX>>),
     DiskOf(<<DocT(DEFAULT_URN_TEMPLATE)>>, <<BadYAML>>),
     DiskOf(<<DocT("")>>, <<DocT(URNTemplateT)>>),
     DiskOf(<<DocX>>, <<DocNoCRD>>),
     DiskOf(<<DocUT>>, <<DocT(URNTemplateT)>>)}

LoadedFrom(dsk) == LoadCRDs(NewOfflineBackend(CcrnGroup), dsk, "*.yaml").fb

\* the entries a field-list input is built of, after its ccrn= entry
Entries == {", cluster=eu", ",name=\"p\"", ", name = * ", ", cluster=BAD!", ", bad", ","}
TypeKeys == {"t.g/v1", "u.g/v1", ""}
FieldListInputs ==
    {"ccrn=" \o key \o Concat(es) : key \in TypeKeys, es \in SeqsUpTo(Entries, MaxEntries)}

\* the segments a URN input is built of
Segments == {"t.g", "v1", "eu"}
URNInputs == {"urn:ccrn:" \o Join(segs, "/") : segs \in SeqsUpTo(Segments, MaxSegments)}

OtherInputs == {"", "t.g/v1", "urn:t.g/v1/eu", " ccrn=t.g/v1", "CCRN=t.g/v1"}

\* field-list inputs with one entry after the ccrn= entry, written from its
\* parts: blanks before the key (pre), on both sides of "=" (mid) and after
\* the value (post), and the value v bare or wrapped in double quotes
EntryShapes ==
    {[pre |-> pre, mid |-> mid, post |-> post, quoted |-> q, v |-> v] :
        pre \in {"", " "}, mid \in {"", " "}, post \in {"", "  "}, q \in {FALSE},
        v \in {"p", "a b", "a\"b", "\"", ""}}
    \cup
    {[pre |-> pre, mid |-> mid, post |-> post, quoted |-> q, v |-> v] :
        pre \in {"", " "}, mid \in {"", " "}, post \in {"", "  "}, q \in {TRUE},
        v \in {"p", "a b", "a\"b", " p ", ""}}
EntryInput(shape) ==
    "ccrn=t.g/v1," \o shape.pre \o "name" \o shape.mid \o "=" \o shape.mid
        \o (IF shape.quoted THEN "\"" \o shape.v \o "\"" ELSE shape.v) \o shape.post
ShapedInputs == {EntryInput(shape) : shape \in EntryShapes}

\* a field value that reads like a placeholder of the templates
PlaceholderInputs == {"ccrn=t.g/v1, cluster=<name>,name=\"p\""}

Inputs == FieldListInputs \cup URNInputs \cup OtherInputs \cup ShapedInputs \cup PlaceholderInputs

Templates ==
    {"", DEFAULT_URN_TEMPLATE, URNTemplateT, LiteralTemplateT, "urn:ccrn:<ccrn>/<cluster>",
     "ccrn:<ccrn>/<name>"}

---------------------------------------------------------------------------
(* The parser and orchestrator specification: Init draws an input, a       *)
(* template and a loaded Static Directory; each action applies one         *)
(* operation to them once.                                                 *)

NoOut == [op |-> "none"]

\* the variables of the two directory specifications, at rest
FsAtRest ==
    /\ fbLock = "free"
    /\ fproc = <<>>
    /\ fobs = <<>>
K8sAtRest ==
    /\ kb = NewKubernetesIndex(CcrnGroup)
    /\ cluster = [items |-> <<>>, up |-> TRUE]
    /\ kbLock = "free"
    /\ kproc = <<>>
    /\ kobs = <<>>
    /\ khist = {}
    /\ klast = <<>>

Init ==
    /\ argInput \in Inputs
    /\ argTemplate \in Templates
    /\ disk \in ParserDisks
    /\ fb = LoadedFrom(disk)
    /\ out = NoOut
    /\ FsAtRest
    /\ K8sAtRest

theBackend == FsBackend(fb, disk)

\* Parse(argInput, argTemplate)
DoParse ==
    /\ out = NoOut
    /\ \E r \in Parse(theBackend, argInput, argTemplate) : out' = [op |-> "Parse", r |-> r]
    /\ UNCHANGED <<argInput, argTemplate, fsVars, k8sVars>>

\* parseURNFields(argInput, argTemplate)
DoParseURNFields ==
    /\ out = NoOut
    /\ out' = [op |-> "parseURNFields", r |-> parseURNFields(argInput, argTemplate)]
    /\ UNCHANGED <<argInput, argTemplate, fsVars, k8sVars>>

\* ValidateCCRN(argInput) on the loaded directory, and on a directory that
\* has loaded nothing
DoValidateCCRN ==
    /\ out = NoOut
    /\ \E v \in ValidateCCRN(theBackend, argInput) :
       \E bare \in ValidateCCRN(FsBackend(NewOfflineBackend(CcrnGroup), disk), argInput) :
           out' = [op |-> "ValidateCCRN", v |-> v, bare |-> bare]
    /\ UNCHANGED <<argInput, argTemplate, fsVars, k8sVars>>

\* a field-list input parsed, rendered with URN(argTemplate), and the
\* rendering parsed again with the same template
DoRoundTrip ==
    /\ out = NoOut
    /\ HasPrefix(argInput, "ccrn=")
    /\ \E x \in Parse(theBackend, argInput, argTemplate) :
          /\ x.fault = "none" /\ x.err = NoErr
          /\ \E urn \in URN(x.parsed, argTemplate) :
             \E back \in Parse(theBackend, urn, argTemplate) :
                 out' = [op |-> "RoundTrip", x |-> x.parsed, urn |-> urn, back |-> back]
    /\ UNCHANGED <<argInput, argTemplate, fsVars, k8sVars>>

\* Parse(argInput, argTemplate), and Parse of the same entries in another
\* order after the ccrn= entry
DoParsePermuted ==
    /\ out = NoOut
    /\ \E key \in TypeKeys, es \in SeqsUpTo(Entries, MaxEntries) :
          /\ argInput = "ccrn=" \o key \o Concat(es)
          /\ \E perm \in Orders(1..Len(es)) :
                LET parsed(other) ==
                        \E x \in Parse(theBackend, argInput, argTemplate) :
                        \E y \in Parse(theBackend, other, argTemplate) :
                            out' = [op |-> "ParsePermuted", other |-> other, x |-> x, y |-> y]
                IN  parsed("ccrn=" \o key \o Concat([i \in 1..Len(es) |-> es[perm[i]]]))
    /\ UNCHANGED <<argInput, argTemplate, fsVars, k8sVars>>

\* a field-list input parsed and rendered with URN(argTemplate)
DoURN ==
    /\ out = NoOut
    /\ HasPrefix(argInput, "ccrn=")
    /\ \E x \in Parse(theBackend, argInput, argTemplate) :
          /\ x.fault = "none" /\ x.err = NoErr
          /\ \E urn \in URN(x.parsed, argTemplate) :
                out' = [op |-> "URN", p |-> x.parsed, urn |-> urn]
    /\ UNCHANGED <<argInput, argTemplate, fsVars, k8sVars>>

\* a field-list input parsed, rendered with CCRN(), and the rendering
\* parsed again
DoCCRNRoundTrip ==
    /\ out = NoOut
    /\ HasPrefix(argInput, "ccrn=")
    /\ \E x \in Parse(theBackend, argInput, argTemplate) :
          /\ x.fault = "none" /\ x.err = NoErr
          /\ \E ccrn \in CCRNString(x.parsed) :
             \E back \in Parse(theBackend, ccrn, argTemplate) :
                 out' = [op |-> "CCRNRoundTrip", x |-> x.parsed, ccrn |-> ccrn, back |-> back]
    /\ UNCHANGED <<argInput, argTemplate, fsVars, k8sVars>>

\* the requests argInput is submitted in: as spec.ccrn, as spec.urn, as
\* both, and in an object that does not decode
Requests(input) ==
    {Request("ok", input, ""), Request("ok", "", input), Request("ok", input, input),
     Request("unexpected end of JSON input", "", "")}

\* handleCombinedRequest on a request carrying argInput
DoAdmission ==
    /\ out = NoOut
    /\ \E request \in Requests(argInput) :
       \E resp \in handleCombinedRequest(theBackend, request) :
           out' = [op |-> "Admission", request |-> request, resp |-> resp]
    /\ UNCHANGED <<argInput, argTemplate, fsVars, k8sVars>>

Next ==
    \/ DoParse
    \/ DoParseURNFields
    \/ DoValidateCCRN
    \/ DoRoundTrip
    \/ DoParsePermuted
    \/ DoURN
    \/ DoCCRNRoundTrip
    \/ DoAdmission

Spec == Init /\ [][Next]_vars

---------------------------------------------------------------------------
(* Properties of the parser and the orchestrator, checked under Spec.      *)

\* the slash-delimited segments of a URN or of a template, after urn:ccrn:
BodyParts(str) == Split(TrimPrefix(str, "urn:ccrn:"), "/")

IsPlaceholder(t) == HasPrefix(t, "<") /\ HasSuffix(t, ">")

\* the field names a template's placeholders name
Placeholders(tmpl) ==
    {SubSeq(BodyParts(tmpl)[i], 2, Len(BodyParts(tmpl)[i]) - 1) :
        i \in {j \in 1..Len(BodyParts(tmpl)) : IsPlaceholder(BodyParts(tmpl)[j])}}

\* the verdicts ValidateCCRN tells apart
UnsupportedType(v) ==
    /\ v.fault = "none" /\ ~v.Valid /\ v.err = NoErr
    /\ Len(v.Errors) = 1
    /\ HasPrefix(v.Errors[1].tag, "Resource type not supported: ")
SchemaViolation(v) ==
    /\ v.fault = "none" /\ ~v.Valid /\ v.err # NoErr
    /\ Len(v.Errors) = 1
    /\ v.Errors[1].tag = "validation failed for "

\* C1: ValidateCCRN returns Valid=true only if the input parsed, the
\* directory reported the parsed type key as supported and ValidateResource
\* returned no error for the parsed resource; the returned error is then nil
\* and ParsedCCRN is the non-nil parsed resource.
C1_ValidOnlyAfterAllChecks ==
    (out.op = "ValidateCCRN" /\ out.v.Valid) =>
        /\ out.v.fault = "none"
        /\ out.v.err = NoErr
        /\ out.v.Errors = <<>>
        /\ ~out.v.ParsedCCRN.nil
        /\ \E p \in Parse(theBackend, argInput, DEFAULT_URN_TEMPLATE) :
               p.fault = "none" /\ p.err = NoErr /\ p.parsed.Fields = out.v.ParsedCCRN.Fields
        /\ CCRNKey(out.v.ParsedCCRN) \in DOMAIN fb.crds
        /\ CCRNKey(out.v.ParsedCCRN) \in DOMAIN fb.validators
        /\ SchemaErrors(fb.validators[CCRNKey(out.v.ParsedCCRN)], ToResourceMap(out.v.ParsedCCRN)) = {}
        /\ Len(out.v.calls) >= 2
        /\ out.v.calls[Len(out.v.calls) - 1]
               = Call("IsResourceTypeSupported", CCRNKey(out.v.ParsedCCRN), TRUE)
        /\ out.v.calls[Len(out.v.calls)]
               = Call("ValidateResource", CCRNKey(out.v.ParsedCCRN), TRUE)

\* a call of ValidateCCRN has returned Valid=true
C1_Witness == out.op = "ValidateCCRN" /\ out.v.Valid /\ ~out.v.ParsedCCRN.nil

\* C2: for a field-list input that parses, ValidateCCRN answers Invalid with
\* the unsupported-type error when the directory does not know the type key,
\* and Invalid with the schema-violation error when the type is known and a
\* field its schema requires is missing; the two verdicts differ.
C2_UnsupportedOrViolation ==
    (out.op = "ValidateCCRN" /\ HasPrefix(argInput, "ccrn=") /\ ~out.v.ParsedCCRN.nil) =>
        /\ CCRNKey(out.v.ParsedCCRN) \notin DOMAIN fb.crds => UnsupportedType(out.v)
        /\ UnsupportedType(out.bare)
        /\ (/\ CCRNKey(out.v.ParsedCCRN) \in DOMAIN fb.validators
            /\ fb.validators[CCRNKey(out.v.ParsedCCRN)].required
                   \ DOMAIN ToResourceMap(out.v.ParsedCCRN) # {})
               => /\ SchemaViolation(out.v)
                  /\ out.v.Errors # out.bare.Errors
                  /\ out.v.err # out.bare.err
        /\ ~(UnsupportedType(out.v) /\ SchemaViolation(out.v))

\* the same field-list input is a schema violation for the loaded directory
\* and an unsupported type for a directory that knows no type
C2_Witness ==
    /\ out.op = "ValidateCCRN" /\ HasPrefix(argInput, "ccrn=")
    /\ SchemaViolation(out.v)
    /\ UnsupportedType(out.bare)

\* C3: a field-list input x that Parse accepts, rendered with URN(template)
\* for a template beginning with urn:ccrn: whose placeholders all name
\* fields of x, parses again with the same template, to the fields of x
\* that the template names.
C3_RoundTrip ==
    (/\ out.op = "RoundTrip"
     /\ HasPrefix(argTemplate, "urn:ccrn:")
     /\ argTemplate # DEFAULT_URN_TEMPLATE
     /\ "ccrn" \in Placeholders(argTemplate)
     /\ Placeholders(argTemplate) \subseteq DOMAIN out.x.Fields) =>
        /\ out.back.fault = "none"
        /\ out.back.err = NoErr
        /\ out.back.parsed.Fields = [k \in Placeholders(argTemplate) |-> out.x.Fields[k]]

\* a field-list input has been rendered with a template naming only its
\* fields, and the rendering parsed again
C3_Witness ==
    /\ out.op = "RoundTrip"
    /\ argTemplate = URNTemplateT
    /\ Placeholders(argTemplate) \subseteq DOMAIN out.x.Fields
    /\ out.urn = "urn:ccrn:t.g/v1/eu/p"
    /\ out.back.err # NoErr

\* a URN matches a template: the type key takes two segments of the URN,
\* written in the template as <ccrn> or as the literal type name and
\* version; every other segment of the template is matched by one segment
\* of the URN, a literal by itself
URNMatches(urn, tmpl) ==
    /\ HasPrefix(urn, "urn:ccrn:") /\ HasPrefix(tmpl, "urn:ccrn:")
    /\ Len(BodyParts(urn)) >= 2
    /\ \A i \in 1..Len(BodyParts(urn)) : BodyParts(urn)[i] # ""
    /\ IF BodyParts(tmpl)[1] = "<ccrn>"
       THEN /\ Len(BodyParts(urn)) = Len(BodyParts(tmpl)) + 1
            /\ \A i \in 2..Len(BodyParts(tmpl)) :
                   IsPlaceholder(BodyParts(tmpl)[i]) \/ BodyParts(tmpl)[i] = BodyParts(urn)[i + 1]
       ELSE /\ Len(BodyParts(tmpl)) >= 2
            /\ Len(BodyParts(urn)) = Len(BodyParts(tmpl))
            /\ ~IsPlaceholder(BodyParts(tmpl)[1]) /\ ~IsPlaceholder(BodyParts(tmpl)[2])
            /\ \A i \in 1..Len(BodyParts(tmpl)) :
                   IsPlaceholder(BodyParts(tmpl)[i]) \/ BodyParts(tmpl)[i] = BodyParts(urn)[i]

\* C4: parseURNFields of a URN urn:ccrn:A/B/... that matches its template
\* succeeds with fields["ccrn"] = A/B, whether the template writes <ccrn> or
\* the literal type name and version.
C4_TypeKey ==
    (out.op = "parseURNFields" /\ URNMatches(argInput, argTemplate)) =>
        /\ out.r.fault = "none"
        /\ out.r.err = NoErr
        /\ "ccrn" \in DOMAIN out.r.fields
        /\ out.r.fields["ccrn"] = BodyParts(argInput)[1] \o "/" \o BodyParts(argInput)[2]

\* parseURNFields has been applied to a URN that matches its template, for
\* a template of each of the two writings
C4_Witness ==
    /\ out.op = "parseURNFields"
    /\ URNMatches(argInput, argTemplate)
    /\ argTemplate \in {URNTemplateT, LiteralTemplateT}
    /\ out.r.err # NoErr

\* C5: a ParsedResource that Parse returns without an error has a
\* fields["ccrn"] entry that is not empty.
C5_CcrnNonEmpty ==
    (out.op = "Parse" /\ out.r.fault = "none" /\ out.r.err = NoErr) =>
        /\ ~out.r.parsed.nil
        /\ "ccrn" \in DOMAIN out.r.parsed.Fields
        /\ out.r.parsed.Fields["ccrn"] # ""

\* Parse has returned a resource without an error whose ccrn is empty
C5_Witness ==
    /\ out.op = "Parse" /\ out.r.fault = "none" /\ out.r.err = NoErr
    /\ "ccrn" \in DOMAIN out.r.parsed.Fields
    /\ out.r.parsed.Fields["ccrn"] = ""

\* the segments of the URN a template requires: one for each of its
\* segments, and one more where <ccrn> stands for type name and version
RequiredSegments(tmpl) ==
    IF BodyParts(tmpl)[1] = "<ccrn>" THEN Len(BodyParts(tmpl)) + 1 ELSE Len(BodyParts(tmpl))

TooFewSegments(urn, tmpl) ==
    /\ HasPrefix(urn, "urn:ccrn:") /\ HasPrefix(tmpl, "urn:ccrn:")
    /\ Len(BodyParts(urn)) < RequiredSegments(tmpl)

\* C6: parseURNFields of a URN with fewer segments than its template
\* requires fails with the segment-count error and returns no fields: never
\* a partial result, never a run-time fault.
C6_SegmentCountMismatch ==
    (out.op = "parseURNFields" /\ TooFewSegments(argInput, argTemplate)) =>
        /\ out.r.fault = "none"
        /\ out.r.err.tag = "URN and template do not match in segment count. Expected format "
        /\ out.r.fields = NoFields

\* parseURNFields has faulted on a URN with too few segments
C6_Witness ==
    /\ out.op = "parseURNFields"
    /\ TooFewSegments(argInput, argTemplate)
    /\ argInput = "urn:ccrn:t.g" /\ argTemplate = URNTemplateT
    /\ out.r.fault = "panic"

---------------------------------------------------------------------------
(* The Static Directory, step by step.  A goroutine of Writers runs        *)
(* LoadCRDs or Refresh; between two of its steps the other goroutines run. *)
(* crdsMutex is held from storeCRD's Lock to its deferred Unlock; the      *)
(* other critical sections (the clearing of Refresh, the crdsByFile entry  *)
(* of processFile, every lookup) begin and end within one step.            *)

\* a reader that would not wait for the writer
rlockUnguarded(lock) == TRUE

\* crdsMutex.RLock is granted while no writer holds the lock
rlockGranted(lock) == lock = "free"

Writers == {"w1"}

\* a goroutine at rest
Idle ==
    [pc |-> "idle", op |-> "none", paths |-> <<>>, pi |-> 0, pattern |-> "",
     files |-> <<>>, fi |-> 0, di |-> 0, vi |-> 0, loadedCRDs |-> <<>>,
     result |-> NewLoadingResult, allErrors |-> <<>>, before |-> NewOfflineBackend(""),
     seen |-> <<>>, ret |-> NoErr]

\* an unrecovered panic ends the program
Alive == \A w \in DOMAIN fproc : fproc[w].pc # "panicked"

\* processFile from its first document on, or LoadCRDs after its last file
RECURSIVE enterFile(_, _)
enterFile(p, fi) ==
    IF fi > Len(p.files) THEN [p EXCEPT !.pc = "append", !.fi = fi]
    ELSE IF ~isYAMLFile(p.files[fi]) THEN enterFile(p, fi + 1)
    ELSE [p EXCEPT !.pc = "doc", !.fi = fi, !.di = 1, !.loadedCRDs = <<>>,
                   !.result.ProcessedFiles = @ + 1]

\* the return of Refresh
refreshReturn(allErrors) ==
    IF Len(allErrors) > 0
    THEN Err("refresh completed with errors: ", allErrors[1].a, allErrors[1].b)
    ELSE NoErr

\* LoadCRDs(pattern) up to its first file; a Refresh goes on to its next
\* path when the call returns at once
RECURSIVE enterPath(_, _, _)
enterLoad(p, dsk, pattern) ==
    LET matched(g) ==
            IF g.err # NoErr THEN [p EXCEPT !.pc = "returned", !.pattern = pattern, !.ret = g.err]
            ELSE IF Len(g.files) = 0
            THEN [p EXCEPT !.pc = "returned", !.pattern = pattern,
                           !.ret = Err("no files found matching pattern: ", pattern, "")]
            ELSE enterFile([p EXCEPT !.pattern = pattern, !.files = g.files,
                                     !.result = NewLoadingResult], 1)
    IN  matched(Glob(dsk, pattern))

\* what follows the return of LoadCRDs: the caller is told (op LoadCRDs), or
\* Refresh's loop notes the error and goes to its next path
afterLoad(p, dsk) ==
    IF p.op = "LoadCRDs" THEN [p EXCEPT !.pc = "idle"]
    ELSE enterPath([p EXCEPT !.allErrors =
                        IF p.ret # NoErr
                        THEN Append(@, Err("failed to refresh path", p.pattern, p.ret.tag))
                        ELSE @],
                   dsk, p.pi + 1)

enterPath(p, dsk, pi) ==
    IF pi > Len(p.paths)
    THEN [p EXCEPT !.pc = "idle", !.pi = pi, !.ret = refreshReturn(p.allErrors)]
    ELSE LET entered(q) == IF q.pc = "returned" THEN afterLoad(q, dsk) ELSE q
         IN  entered(enterLoad([p EXCEPT !.pi = pi], dsk, p.paths[pi]))

\* the call LoadCRDs(pattern)
FsCallLoadCRDs(w, pattern) ==
    /\ Alive /\ fproc[w].pc = "idle"
    /\ Len(fb.loadedPaths) < MaxPaths
    /\ LET called(q) == fproc' = [fproc EXCEPT ![w] = IF q.pc = "returned" THEN afterLoad(q, disk) ELSE q]
       IN  called(enterLoad([Idle EXCEPT !.op = "LoadCRDs"], disk, pattern))
    /\ UNCHANGED <<fb, disk, fbLock, fobs, parseVars, k8sVars>>

\* the document the goroutine is at
docOf(p, dsk) == dsk[p.files[p.fi]][p.di]

\* the next turn of processFile's loop, or its end
nextDoc(p, dsk) ==
    IF p.di + 1 > Len(dsk[p.files[p.fi]]) THEN [p EXCEPT !.pc = "storeFile", !.di = p.di + 1]
    ELSE [p EXCEPT !.pc = "doc", !.di = p.di + 1]

\* whether processSingleDocument gets to storeCRD
reachesStore(fbr, document) ==
    /\ ~isEmptyDocument(document)
    /\ document.yaml = "ok"
    /\ validateCRDStructure(document) = NoErr
    /\ isCCRNRelevant(fbr, document)

\* one turn of processFile's loop up to storeCRD's Lock: a document that
\* is not stored is counted; one that is stored takes the lock
FsProcessDocument(w) ==
    /\ Alive /\ fproc[w].pc = "doc"
    /\ IF fproc[w].di > Len(disk[fproc[w].files[fproc[w].fi]])
       THEN /\ fproc' = [fproc EXCEPT ![w].pc = "storeFile"]
            /\ UNCHANGED fbLock
       ELSE IF reachesStore(fb, docOf(fproc[w], disk))
       THEN /\ fbLock = "free"
            /\ fbLock' = w
            /\ fproc' = [fproc EXCEPT ![w].pc = "store", ![w].vi = 1]
       ELSE /\ LET counted(st) ==
                       fproc' = [fproc EXCEPT ![w] = nextDoc([@ EXCEPT !.result = st.result], disk)]
               IN  counted(processDocument([fault |-> "none", fb |-> fb, result |-> fproc[w].result,
                                            loadedCRDs |-> fproc[w].loadedCRDs],
                                           docOf(fproc[w], disk), fproc[w].files[fproc[w].fi],
                                           fproc[w].di))
            /\ UNCHANGED fbLock
    /\ UNCHANGED <<fb, disk, fobs, parseVars, k8sVars>>

\* storeCRD's loop, holding the lock: the descriptor of one version is
\* entered; past the last version the deferred Unlock runs and processFile
\* counts the definition
FsStoreDescriptor(w) ==
    /\ Alive /\ fproc[w].pc = "store" /\ fbLock = w
    /\ LET crd == docOf(fproc[w], disk)
           vi == fproc[w].vi
       IN  IF vi > Len(crd.Versions)
           THEN /\ fbLock' = "free"
                /\ fproc' = [fproc EXCEPT ![w] =
                       nextDoc([@ EXCEPT !.loadedCRDs = Append(@, crd),
                                         !.result.ProcessedCRDs = @ + 1,
                                         !.result.LoadedCRDKeys = @ \o servedKeys(crd)], disk)]
                /\ UNCHANGED fb
           ELSE IF ~crd.Versions[vi].Served
           THEN /\ fproc' = [fproc EXCEPT ![w].vi = vi + 1]
                /\ UNCHANGED <<fb, fbLock>>
           \* version.Schema.OpenAPIV3Schema with a nil Schema
           ELSE IF crd.Versions[vi].Schema.nil
           THEN /\ fbLock' = "free"
                /\ fproc' = [fproc EXCEPT ![w].pc = "panicked"]
                /\ UNCHANGED fb
           ELSE /\ fb' = [fb EXCEPT !.crds =
                             (getCRDKey(crd.Group, crd.Versions[vi].Name, crd.NamesKind)
                                 :> CRDInfo(crd, crd.Versions[vi],
                                            extractURNTemplate(crd, crd.Versions[vi].Name))) @@ @]
                /\ fproc' = [fproc EXCEPT ![w].pc = "validator"]
                /\ UNCHANGED fbLock
    /\ UNCHANGED <<disk, fobs, parseVars, k8sVars>>

\* createSchemaValidator for the version whose descriptor was just entered
FsCreateValidator(w) ==
    /\ Alive /\ fproc[w].pc = "validator" /\ fbLock = w
    /\ LET crd == docOf(fproc[w], disk)
           vi == fproc[w].vi
       IN  fb' = IF createSchemaValidator(crd.Versions[vi])
                 THEN [fb EXCEPT !.validators =
                          (getCRDKey(crd.Group, crd.Versions[vi].Name, crd.NamesKind)
                              :> crd.Versions[vi].Schema) @@ @]
                 ELSE fb
    /\ fproc' = [fproc EXCEPT ![w].pc = "store", ![w].vi = @ + 1]
    /\ UNCHANGED <<disk, fbLock, fobs, parseVars, k8sVars>>

\* the end of processFile: crdsByFile[filePath] = loadedCRDs under the lock
FsStoreFile(w) ==
    /\ Alive /\ fproc[w].pc = "storeFile"
    /\ Len(fproc[w].loadedCRDs) > 0 => fbLock = "free"
    /\ fb' = storeFile(fb, fproc[w].files[fproc[w].fi], fproc[w].loadedCRDs)
    /\ fproc' = [fproc EXCEPT ![w] = enterFile(@, @.fi + 1)]
    /\ UNCHANGED <<disk, fbLock, fobs, parseVars, k8sVars>>

\* the end of LoadCRDs: the pattern is appended to loadedPaths (no lock is
\* held) and the call returns
FsAppendPath(w) ==
    /\ Alive /\ fproc[w].pc = "append"
    /\ fb' = [fb EXCEPT !.loadedPaths = Append(@, fproc[w].pattern)]
    /\ fproc' = [fproc EXCEPT ![w] =
           afterLoad([@ EXCEPT !.ret = loadCRDsReturn(fproc[w].result)], disk)]
    /\ UNCHANGED <<disk, fbLock, fobs, parseVars, k8sVars>>

\* the call Refresh(), up to its Lock
FsCallRefresh(w) ==
    /\ Alive /\ fproc[w].pc = "idle"
    /\ Len(fb.loadedPaths) > 0
    /\ 2 * Len(fb.loadedPaths) <= MaxPaths
    /\ fproc' = [fproc EXCEPT ![w] =
           [Idle EXCEPT !.pc = "clear", !.op = "Refresh", !.paths = fb.loadedPaths, !.before = fb]]
    /\ UNCHANGED <<fb, disk, fbLock, fobs, parseVars, k8sVars>>

\* Refresh clears the three maps under the lock, releases it, and calls
\* LoadCRDs for its first path
FsClear(w) ==
    /\ Alive /\ fproc[w].pc = "clear"
    /\ fbLock = "free"
    /\ fb' = clearIndex(fb)
    /\ fproc' = [fproc EXCEPT ![w] = enterPath(@, disk, 1)]
    /\ UNCHANGED <<disk, fbLock, fobs, parseVars, k8sVars>>

\* whether a Refresh is under way
Refreshing == \E w \in Writers : fproc[w].op = "Refresh" /\ fproc[w].pc \notin {"idle", "panicked"}

\* the index a reader holding RLock has before it, with what it was asked
\* and what it answered; `before` is the index the Refresh under way began on
Observed(op, key, answer) ==
    [op |-> op, key |-> key, answer |-> answer,
     crds |-> fb.crds, validators |-> fb.validators, crdsByFile |-> fb.crdsByFile,
     refreshing |-> Refreshing,
     before |-> IF Refreshing
                THEN fproc[CHOOSE w \in Writers : fproc[w].op = "Refresh" /\ fproc[w].pc # "idle"].before
                ELSE fb,
     disk |-> disk]

NoObs == [op |-> "none"]

\* the type keys, definition names and resources the lookups are asked for
LookupKeys == {"t.g/v1", "u.g/v1", "u.g/v2", "z.g/v1"}
LookupNames == {"t.g", "u.g", "z.g"}
ResourceOf(key) == ParsedResource("CCRN", ("ccrn" :> key) @@ ("cluster" :> "eu"), "")

\* GetCRD, under RLock
FsLookupGetCRD(key) ==
    /\ Alive /\ rlockGranted(fbLock)
    /\ fobs' = Observed("GetCRD", key, FsGetCRD(fb, key).err)
    /\ UNCHANGED <<fb, disk, fbLock, fproc, parseVars, k8sVars>>

\* IsResourceTypeSupported, under RLock
FsLookupIsResourceTypeSupported(key) ==
    /\ Alive /\ rlockGranted(fbLock)
    /\ fobs' = Observed("IsResourceTypeSupported", key, FsIsResourceTypeSupported(fb, key))
    /\ UNCHANGED <<fb, disk, fbLock, fproc, parseVars, k8sVars>>

\* ValidateResource: the validator is read under RLock
FsLookupValidateResource(key) ==
    /\ Alive /\ rlockGranted(fbLock)
    /\ fobs' = Observed("ValidateResource", key, FsValidateResource(fb, ResourceOf(key)))
    /\ UNCHANGED <<fb, disk, fbLock, fproc, parseVars, k8sVars>>

\* GetURNTemplate, under RLock
FsLookupGetURNTemplate(crdName) ==
    /\ Alive /\ rlockGranted(fbLock)
    /\ \E t \in FsGetURNTemplate(fb, crdName, "v1") :
           fobs' = Observed("GetURNTemplate", crdName, t.err)
    /\ UNCHANGED <<fb, disk, fbLock, fproc, parseVars, k8sVars>>

\* a served version without a schema block, beside a version with one
DocP ==
    CRDDoc(CRDKind, "p.g", "g", "P",
           <<VersionOf("v1", TRUE, SchemaOf({}, {})), VersionOf("v2", TRUE, NilSchema)>>, NoFields)

\* the files the Static Directory is pointed at
StaticDisks ==
    {DiskOf(<<DocT(URNTemplateT), EmptyDoc, DocU>>, <<DocX, BadYAML>>),
     DiskOf(<<DocU>>, <<DocT("")>>),
     DiskOf(<<DocT(URNTemplateT)>>, <<DocNoCRD, DocP>>)}

Patterns == {"*.yaml", "b.yaml", "c.yaml", "["}

\* the files change while no load runs
FsDiskChange ==
    /\ Alive /\ \A w \in Writers : fproc[w].pc = "idle"
    /\ disk' \in StaticDisks \ {disk}
    /\ UNCHANGED <<fb, fbLock, fproc, fobs, parseVars, k8sVars>>

InitStatic ==
    /\ argInput = "" /\ argTemplate = "" /\ out = NoOut
    /\ fb = NewOfflineBackend(CcrnGroup)
    /\ disk \in StaticDisks
    /\ fbLock = "free"
    /\ fproc = [w \in Writers |-> Idle]
    /\ fobs = NoObs
    /\ K8sAtRest

NextStatic ==
    \/ \E w \in Writers, pattern \in Patterns : FsCallLoadCRDs(w, pattern)
    \/ \E w \in Writers : FsProcessDocument(w)
    \/ \E w \in Writers : FsStoreDescriptor(w)
    \/ \E w \in Writers : FsCreateValidator(w)
    \/ \E w \in Writers : FsStoreFile(w)
    \/ \E w \in Writers : FsAppendPath(w)
    \/ \E w \in Writers : FsCallRefresh(w)
    \/ \E w \in Writers : FsClear(w)
    \/ \E key \in LookupKeys : FsLookupGetCRD(key)
    \/ \E key \in LookupKeys : FsLookupIsResourceTypeSupported(key)
    \/ \E key \in LookupKeys : FsLookupValidateResource(key)
    \/ \E crdName \in LookupNames : FsLookupGetURNTemplate(crdName)
    \/ FsDiskChange

SpecStatic == InitStatic /\ [][NextStatic]_vars

---------------------------------------------------------------------------
(* Properties of the Static Directory, checked under SpecStatic.           *)

C8_LookupSeesCompleteIndex ==
    (/\ fobs.op # "none" /\ fobs.refreshing
     /\ FsRefresh(fobs.before, fobs.disk).fault = "none") =>
        /\ \/ /\ fobs.crds = fobs.before.crds
              /\ fobs.validators = fobs.before.validators
              /\ fobs.crdsByFile = fobs.before.crdsByFile
           \/ /\ fobs.crds = FsRefresh(fobs.before, fobs.disk).fb.crds
              /\ fobs.validators = FsRefresh(fobs.before, fobs.disk).fb.validators
              /\ fobs.crdsByFile = FsRefresh(fobs.before, fobs.disk).fb.crdsByFile
        /\ (/\ fobs.op = "IsResourceTypeSupported"
            /\ fobs.key \in DOMAIN fobs.before.crds
            /\ fobs.key \in DOMAIN FsRefresh(fobs.before, fobs.disk).fb.crds)
               => fobs.answer = TRUE

\* while a Refresh is under way, a type that is in the index before and
\* after it has been reported as not supported
C8_Witness ==
    /\ fobs.op = "IsResourceTypeSupported" /\ fobs.refreshing
    /\ FsRefresh(fobs.before, fobs.disk).fault = "none"
    /\ fobs.key = "t.g/v1"
    /\ fobs.key \in DOMAIN fobs.before.crds
    /\ fobs.key \in DOMAIN FsRefresh(fobs.before, fobs.disk).fb.crds
    /\ fobs.answer = FALSE

---------------------------------------------------------------------------
(* The Live Directory, step by step.  The goroutine "loop" is the one      *)
(* StartRefreshLoop starts; "caller" runs GetCRD, whose miss calls         *)
(* Refresh.  Refresh lists outside the lock, then holds crdsMutex from     *)
(* its Lock to its deferred Unlock while it replaces and fills the map.    *)

Goroutines == {"loop", "caller"}

KIdle == [pc |-> "idle", op |-> "none", key |-> "", listed |-> <<>>, ii |-> 0, ret |-> NoErr]

NoVerdict == [fault |-> "none", nil |-> TRUE]

\* what a lookup saw and answered: the index it read under RLock, whether
\* its first read missed, the Refresh calls it made, whether the control
\* plane serves the type at that moment, and whether a Refresh is under way
KObserved(op, key, answer, missed, refreshes, v) ==
    [op |-> op, key |-> key, answer |-> answer, missed |-> missed, refreshes |-> refreshes,
     ccrns |-> kb.ccrns, served |-> cluster.up /\ key \in DOMAIN FilteredListing(cluster.items, kb.ccrnGroup),
     refreshing |-> \E g \in Goroutines : kproc[g].pc \in {"list", "lock", "fill"},
     v |-> v]

\* the Refresh whose replacement of the index completed last: the listing
\* it had obtained, the listing of the replacement before it, whether its
\* call had begun when that replacement completed (overlapped), and the
\* goroutines in a Refresh that had not taken the lock when it completed
LastWrite(listed, prev, overlapped, pending) ==
    [listed |-> listed, prev |-> prev, overlapped |-> overlapped, pending |-> pending]

\* the control planes of the model
DocV ==
    CRDDoc(CRDKind, "v.g", "g", "V",
           <<VersionOf("v1", TRUE, SchemaOf({}, {})), VersionOf("v2", TRUE, SchemaOf({"name"}, {}))>>,
           NoFields)
Clusters ==
    {[items |-> <<>>, up |-> TRUE],
     [items |-> <<DocT(URNTemplateT), DocX, DocV>>, up |-> TRUE],
     [items |-> <<DocT(URNTemplateT), DocX, DocV>>, up |-> FALSE]}

LiveKeys == {"t.g/v1", "v.g/v2"}
LiveInputs == {"ccrn=t.g/v1, cluster=eu,name=\"p\"", "ccrn=v.g/v2", "urn:ccrn:t.g/v1/eu/p"}

\* a tick of the refresh loop's ticker: Refresh is called; ret stays the
\* error the loop's last attempt returned (and logged)
K8sTick ==
    /\ kproc["loop"].pc = "idle"
    /\ kproc' = [kproc EXCEPT !["loop"] =
           [KIdle EXCEPT !.pc = "list", !.op = "Refresh", !.ret = kproc["loop"].ret]]
    /\ UNCHANGED <<kb, cluster, kbLock, kobs, khist, klast, parseVars, fsVars>>

\* GetCRD(key): the first read under RLock; a miss calls Refresh
K8sCallGetCRD(key) ==
    /\ kproc["caller"].pc = "idle"
    /\ rlockGranted(kbLock)
    /\ IF key \in DOMAIN kb.ccrns
       THEN /\ kobs' = KObserved("GetCRD", key, TRUE, FALSE, 0, NoVerdict)
            /\ kproc' = [kproc EXCEPT !["caller"] = [KIdle EXCEPT !.op = "GetCRD", !.key = key]]
       ELSE /\ kobs' = KObserved("GetCRD.miss", key, FALSE, TRUE, 0, NoVerdict)
            /\ kproc' = [kproc EXCEPT !["caller"] =
                   [KIdle EXCEPT !.pc = "list", !.op = "GetCRD", !.key = key]]
    /\ UNCHANGED <<kb, cluster, kbLock, khist, klast, parseVars, fsVars>>

\* a refresh loop that ends at the first failed attempt
stopsOnError(p, err) ==
    IF p.op = "GetCRD" THEN [p EXCEPT !.pc = "recheck", !.ret = err]
    ELSE IF err # NoErr THEN [p EXCEPT !.pc = "stopped", !.ret = err]
    ELSE [p EXCEPT !.pc = "idle", !.ret = err]

\* a Refresh that starts over when the listing failed
retriesOnError(p, err) ==
    IF err # NoErr THEN [p EXCEPT !.pc = "list", !.ret = err]
    ELSE IF p.op = "GetCRD" THEN [p EXCEPT !.pc = "recheck", !.ret = err]
    ELSE [p EXCEPT !.pc = "idle", !.ret = err]

\* a Refresh that fills the new map without holding the lock
fillsUnlocked(g) == "free"

\* the holder of crdsMutex after Refresh's Lock (line 168)
lockedBy(g) == g

\* where a goroutine goes when its Refresh has returned
afterRefresh(p, err) ==
    IF p.op = "GetCRD" THEN [p EXCEPT !.pc = "recheck", !.ret = err]
    ELSE [p EXCEPT !.pc = "idle", !.ret = err]

\* Refresh lists the definitions of the control plane; a failed List is
\* Refresh's return
K8sList(g) ==
    /\ kproc[g].pc = "list"
    /\ kproc' = [kproc EXCEPT ![g] =
           IF ~cluster.up THEN afterRefresh(@, Err("failed to list CRDs: ", "unavailable", ""))
           ELSE [@ EXCEPT !.pc = "lock", !.listed = cluster.items]]
    /\ klast' = IF ~cluster.up THEN [klast EXCEPT !.pending = @ \ {g}] ELSE klast
    /\ UNCHANGED <<kb, cluster, kbLock, kobs, khist, parseVars, fsVars>>

\* Refresh takes the lock and replaces the map by an empty one
K8sLockAndClear(g) ==
    /\ kproc[g].pc = "lock"
    /\ kbLock = "free"
    /\ kbLock' = lockedBy(g)
    /\ kb' = [kb EXCEPT !.ccrns = EmptyMap]
    /\ kproc' = [kproc EXCEPT ![g].pc = "fill", ![g].ii = 1]
    /\ UNCHANGED <<cluster, kobs, khist, klast, parseVars, fsVars>>

\* one turn of Refresh's loop over the listing, holding the lock; past the
\* last definition the deferred Unlock runs and Refresh returns
K8sFill(g) ==
    /\ kproc[g].pc = "fill" /\ kbLock = lockedBy(g)
    /\ IF kproc[g].ii <= Len(kproc[g].listed)
       THEN /\ kb' = [kb EXCEPT !.ccrns =
                         IF Contains(kproc[g].listed[kproc[g].ii].Group, kb.ccrnGroup)
                         THEN cacheVersions(@, kproc[g].listed[kproc[g].ii], 1)
                         ELSE @]
            /\ kproc' = [kproc EXCEPT ![g].ii = @ + 1]
            /\ UNCHANGED <<kbLock, khist, klast>>
       ELSE /\ kbLock' = "free"
            /\ khist' = khist \cup {kb.ccrns}
            /\ klast' = LastWrite(kproc[g].listed, klast.listed, g \in klast.pending,
                                  {h \in Goroutines \ {g} : kproc[h].pc \in {"list", "lock"}})
            /\ kproc' = [kproc EXCEPT ![g] = afterRefresh(@, NoErr)]
            /\ UNCHANGED kb
    /\ UNCHANGED <<cluster, kobs, parseVars, fsVars>>

\* GetCRD reads the map again after its Refresh, and returns
K8sRecheck ==
    /\ kproc["caller"].pc = "recheck"
    /\ rlockGranted(kbLock)
    /\ kobs' = KObserved("GetCRD", kproc["caller"].key, kproc["caller"].key \in DOMAIN kb.ccrns,
                         TRUE, 1, NoVerdict)
    /\ kproc' = [kproc EXCEPT !["caller"].pc = "idle"]
    /\ UNCHANGED <<kb, cluster, kbLock, khist, klast, parseVars, fsVars>>

\* IsResourceTypeSupported(key), under RLock
K8sLookupIsResourceTypeSupported(key) ==
    /\ rlockGranted(kbLock)
    /\ LET answered(r) ==
               kobs' = KObserved("IsResourceTypeSupported", key, r.supported, ~r.supported,
                                 r.refreshes, NoVerdict)
       IN  answered(K8sIsResourceTypeSupported(kb, cluster, key))
    /\ UNCHANGED <<kb, cluster, kbLock, kproc, khist, klast, parseVars, fsVars>>

\* ValidateCCRN(input) with the Live Directory as its backend, while no
\* other goroutine is in a Refresh
K8sValidateCCRN(ccrnStr) ==
    /\ \A g \in Goroutines : kproc[g].pc = "idle"
    /\ \E v \in ValidateCCRN(K8sBackend(kb, cluster), ccrnStr) :
           /\ kb' = v.b.kb
           /\ khist' = khist \cup {v.b.kb.ccrns}
           /\ klast' = IF v.refreshes > 0 /\ cluster.up
                       THEN LastWrite(cluster.items, klast.listed, FALSE, {})
                       ELSE klast
           /\ kobs' = [KObserved("ValidateCCRN", CCRNKey(v.ParsedCCRN), v.Valid, FALSE, v.refreshes,
                                 [v EXCEPT !.b = "k8s"])
                          EXCEPT !.ccrns = v.b.kb.ccrns]
    /\ UNCHANGED <<cluster, kbLock, kproc, parseVars, fsVars>>

\* type definitions are added to or removed from the control plane, or it
\* becomes unreachable
K8sClusterChange ==
    /\ cluster' \in Clusters \ {cluster}
    /\ UNCHANGED <<kb, kbLock, kproc, kobs, khist, klast, parseVars, fsVars>>

\* NewKubernetesBackend: the index after the initial Refresh
InitLive ==
    /\ argInput = "" /\ argTemplate = "" /\ out = NoOut
    /\ fb = NewOfflineBackend(CcrnGroup) /\ disk = EmptyMap
    /\ FsAtRest
    /\ cluster \in Clusters
    /\ kb = K8sRefresh(NewKubernetesIndex(CcrnGroup), cluster).kb
    /\ kbLock = "free"
    /\ kproc = [g \in Goroutines |-> KIdle]
    /\ kobs = [op |-> "none"]
    /\ khist = {kb.ccrns}
    /\ klast = LastWrite(IF cluster.up THEN cluster.items ELSE <<>>, <<>>, FALSE, {})

NextLive ==
    \/ K8sTick
    \/ \E key \in LiveKeys : K8sCallGetCRD(key)
    \/ \E g \in Goroutines : K8sList(g)
    \/ \E g \in Goroutines : K8sLockAndClear(g)
    \/ \E g \in Goroutines : K8sFill(g)
    \/ K8sRecheck
    \/ \E key \in LiveKeys : K8sLookupIsResourceTypeSupported(key)
    \/ \E ccrnStr \in LiveInputs : K8sValidateCCRN(ccrnStr)
    \/ K8sClusterChange

SpecLive == InitLive /\ [][NextLive]_vars

---------------------------------------------------------------------------
(* Properties of the Live Directory, checked under SpecLive.               *)

\* C9: every Refresh replaces the whole index in one step with respect to
\* readers: what a GetCRD or an IsResourceTypeSupported reads, also while a
\* Refresh is under way, is an index a Refresh installed (or the initial
\* one), and what a Refresh installs is the filtered listing it obtained.
C9_RefreshReplacesAtOnce ==
    /\ kobs.op \in {"GetCRD", "GetCRD.miss", "IsResourceTypeSupported"} => kobs.ccrns \in khist
    /\ \A g \in Goroutines :
           (kproc[g].pc = "fill" /\ kproc[g].ii > Len(kproc[g].listed))
               => kb.ccrns = FilteredListing(kproc[g].listed, CcrnGroup)
    /\ \A m \in khist : \E cl \in Clusters : m = FilteredListing(cl.items, CcrnGroup)

\* a lookup has read a filled index while a Refresh of another goroutine
\* was under way, after an earlier Refresh had replaced the empty index
C9_Witness ==
    /\ kobs.op = "IsResourceTypeSupported" /\ kobs.refreshing
    /\ kobs.ccrns # EmptyMap /\ EmptyMap \in khist
    /\ Cardinality(khist) > 1

\* C10: a lookup of a type key that misses the cache, by GetCRD or by
\* IsResourceTypeSupported, performs exactly one Refresh before it answers,
\* so ValidateCCRN does not reject as unsupported a type the control plane
\* serves.
C10_MissRefreshesOnce ==
    /\ (kobs.op \in {"GetCRD", "IsResourceTypeSupported"} /\ kobs.missed) => kobs.refreshes = 1
    /\ (kobs.op = "ValidateCCRN" /\ kobs.served /\ kobs.v.fault = "none")
           => ~UnsupportedType(kobs.v)

\* ValidateCCRN has rejected as unsupported, without any Refresh, a type
\* the control plane serves
C10_Witness ==
    /\ kobs.op = "ValidateCCRN" /\ kobs.key = "t.g/v1" /\ kobs.served
    /\ kobs.refreshes = 0
    /\ UnsupportedType(kobs.v)


---------------------------------------------------------------------------
(* The Static Directory, call by call: one goroutine calls the exported    *)
(* operations of a FilesystemBackend one after the other, each call run to *)
(* its end.  out is the record of the call that returned last: what it was *)
(* asked (arg), what it answered (answer, err), whether it returned at all *)
(* (fault) and the directory it was made on (before).  A value a call      *)
(* hands out may be written to by the caller before the next call.         *)

ApiOut(op, arg, fault, err, answer, before) ==
    [op |-> op, arg |-> arg, fault |-> fault, err |-> err, answer |-> answer, before |-> before]

\* an unrecovered panic ends the program
ApiAlive == IF out.op = "none" THEN TRUE ELSE out.fault = "none"

\* type N.g, whose one version carries a schema and is not served
DocN == CRDDoc(CRDKind, "n.g", "g", "N", <<VersionOf("v1", FALSE, SchemaOf({}, {}))>>, NoFields)
\* a definition of another naming authority that has no version
DocXBad == CRDDoc(CRDKind, "b.x", "x", "B", <<>>, NoFields)

\* type C.g, named as a control plane names a definition: plural.group
DocC ==
    [CRDDoc(CRDKind, "cs.g", "g", "C", <<VersionOf("v1", TRUE, SchemaOf({}, {}))>>,
            URNTemplateAnnotation("v1") :> URNTemplateT)
        EXCEPT !.Plural = "cs", !.Singular = "c"]

\* the files the directory is pointed at
ApiDisks ==
    StaticDisks \cup ParserDisks
    \cup {DiskOf(<<DocT(URNTemplateT)>>, <<EmptyDoc>>) @@ ("sub/c.yaml" :> <<DocX>>),
          DiskOf(<<DocT(URNTemplateT)>>, <<BadYAML>>) @@ ("sub/c.yaml" :> <<DocU>>),
          DiskOf(<<DocN>>, <<DocT(URNTemplateT), DocXBad, DocN, DocX>>),
          DiskOf(<<DocC>>, <<EmptyDoc>>)}

\* the directories LoadCRDsFromDirectory is pointed at: the working
\* directory, its subdirectory, and a directory that does not exist
Directories == {".", "sub", "missing"}

ApiPatterns == Patterns \cup {"a.yaml"}

\* LoadCRDs(pattern)
ApiLoadCRDs(pattern) ==
    /\ ApiAlive
    /\ Len(fb.loadedPaths) < MaxPaths
    /\ LET returned(r) ==
               /\ fb' = r.fb
               /\ out' = ApiOut("LoadCRDs", pattern, r.fault, r.err, r.result, fb)
       IN  returned(LoadCRDs(fb, disk, pattern))
    /\ UNCHANGED <<argInput, argTemplate, disk, fbLock, fproc, fobs, k8sVars>>

\* LoadCRDsFromDirectory(dir)
ApiLoadCRDsFromDirectory(dir) ==
    /\ ApiAlive
    /\ Len(fb.loadedPaths) < MaxPaths
    /\ LET returned(r) ==
               /\ fb' = r.fb
               /\ out' = ApiOut("LoadCRDsFromDirectory", dir, r.fault, r.err, r.totalLoaded, fb)
       IN  returned(LoadCRDsFromDirectory(fb, disk, dir))
    /\ UNCHANGED <<argInput, argTemplate, disk, fbLock, fproc, fobs, k8sVars>>

\* Refresh()
ApiRefresh ==
    /\ ApiAlive
    /\ Len(fb.loadedPaths) > 0
    /\ 2 * Len(fb.loadedPaths) <= MaxPaths
    /\ LET returned(r) ==
               /\ fb' = r.fb
               /\ out' = ApiOut("Refresh", "", r.fault, r.err, "", fb)
       IN  returned(FsRefresh(fb, disk))
    /\ UNCHANGED <<argInput, argTemplate, disk, fbLock, fproc, fobs, k8sVars>>

\* GetCRD(ccrnVersion): the *CRDInfo returned is the pointer the crds map
\* holds under ccrnVersion
ApiGetCRD(ccrnVersion) ==
    /\ ApiAlive
    /\ LET returned(r) == out' = ApiOut("GetCRD", ccrnVersion, "none", r.err, r.info, fb)
       IN  returned(FsGetCRD(fb, ccrnVersion))
    /\ UNCHANGED <<argInput, argTemplate, fsVars, k8sVars>>

\* IsResourceTypeSupported(ccrnVersion)
ApiIsResourceTypeSupported(ccrnVersion) ==
    /\ ApiAlive
    /\ out' = ApiOut("IsResourceTypeSupported", ccrnVersion, "none", NoErr,
                     FsIsResourceTypeSupported(fb, ccrnVersion), fb)
    /\ UNCHANGED <<argInput, argTemplate, fsVars, k8sVars>>

\* GetLoadedCRDs(): a slice made by the call, the keys in the order the
\* range over crds visited them
GetLoadedCRDs(fbr) == Orders(DOMAIN fbr.crds)

ApiGetLoadedCRDs ==
    /\ ApiAlive
    /\ \E keys \in GetLoadedCRDs(fb) : out' = ApiOut("GetLoadedCRDs", "", "none", NoErr, keys, fb)
    /\ UNCHANGED <<argInput, argTemplate, fsVars, k8sVars>>

\* GetLoadingStatistics(): a map made by the call; its "loaded_paths" entry
\* is the slice fb.loadedPaths itself, its "crds_per_file" entry a map made
\* by the call
GetLoadingStatistics(fbr) ==
    [total_crds |-> Cardinality(DOMAIN fbr.crds),
     total_files |-> Cardinality(DOMAIN fbr.crdsByFile),
     total_validators |-> Cardinality(DOMAIN fbr.validators),
     loaded_paths |-> fbr.loadedPaths,
     ccrn_group_filter |-> fbr.ccrnGroup,
     crds_per_file |-> [f \in DOMAIN fbr.crdsByFile |-> Len(fbr.crdsByFile[f])]]

ApiGetLoadingStatistics ==
    /\ ApiAlive
    /\ out' = ApiOut("GetLoadingStatistics", "", "none", NoErr, GetLoadingStatistics(fb), fb)
    /\ UNCHANGED <<argInput, argTemplate, fsVars, k8sVars>>

\* the caller assigns to a field of the CRDInfo that GetCRD returned: the
\* pointer is the one the index holds, the assignment lands in the index
ApiMutateCRDInfo(urnFormat) ==
    /\ ApiAlive
    /\ out.op = "GetCRD" /\ out.err = NoErr
    /\ fb' = [fb EXCEPT !.crds[out.arg].URNFormat = urnFormat]
    /\ out' = ApiOut("Mutate", out.op, "none", NoErr, urnFormat, fb)
    /\ UNCHANGED <<argInput, argTemplate, disk, fbLock, fproc, fobs, k8sVars>>

\* the caller assigns to an element of the slice GetLoadedCRDs returned:
\* the slice belongs to the caller
ApiMutateLoadedCRDs ==
    /\ ApiAlive
    /\ out.op = "GetLoadedCRDs" /\ Len(out.answer) > 0
    /\ out' = ApiOut("Mutate", out.op, "none", NoErr, "", fb)
    /\ UNCHANGED <<argInput, argTemplate, fsVars, k8sVars>>

\* the caller assigns to what GetLoadingStatistics returned: to an entry of
\* the map or of its "crds_per_file" map, which belong to the caller, or to
\* an element of its "loaded_paths" slice, which is fb.loadedPaths
ApiMutateStatistics(entry, pattern) ==
    /\ ApiAlive
    /\ out.op = "GetLoadingStatistics"
    /\ IF entry = "loaded_paths"
       THEN /\ Len(fb.loadedPaths) > 0
            /\ fb' = [fb EXCEPT !.loadedPaths[1] = pattern]
       ELSE fb' = fb
    /\ out' = ApiOut("Mutate", out.op, "none", NoErr, entry, fb)
    /\ UNCHANGED <<argInput, argTemplate, disk, fbLock, fproc, fobs, k8sVars>>

\* the resources ValidateResource is asked about
ApiResources ==
    {ParsedResource("CCRN", ("ccrn" :> key) @@ more, "") :
        key \in LookupKeys,
        more \in {NoFields, "cluster" :> "eu", ("cluster" :> "eu") @@ ("name" :> "p"),
                  ("cluster" :> "BAD!") @@ ("name" :> "p")}}

\* ValidateResource("", parsedCCRN)
ApiValidateResource(parsedCCRN) ==
    /\ ApiAlive
    /\ out' = ApiOut("ValidateResource", CCRNKey(parsedCCRN), "none",
                     FsValidateResource(fb, parsedCCRN), parsedCCRN, fb)
    /\ UNCHANGED <<argInput, argTemplate, fsVars, k8sVars>>

\* GetURNTemplate(crdName, version)
ApiGetURNTemplate(crdName, version) ==
    /\ ApiAlive
    /\ \E t \in FsGetURNTemplate(fb, crdName, version) :
           out' = ApiOut("GetURNTemplate", <<crdName, version>>, "none", t.err, t.template, fb)
    /\ UNCHANGED <<argInput, argTemplate, fsVars, k8sVars>>

InitApi ==
    /\ argInput = "" /\ argTemplate = "" /\ out = NoOut
    /\ fb = NewOfflineBackend(CcrnGroup)
    /\ disk \in ApiDisks
    /\ FsAtRest
    /\ K8sAtRest

NextApi ==
    \/ \E pattern \in ApiPatterns : ApiLoadCRDs(pattern)
    \/ \E dir \in Directories : ApiLoadCRDsFromDirectory(dir)
    \/ ApiRefresh
    \/ \E key \in LookupKeys : ApiGetCRD(key)
    \/ \E key \in LookupKeys : ApiIsResourceTypeSupported(key)
    \/ ApiGetLoadedCRDs
    \/ ApiGetLoadingStatistics
    \/ \E urnFormat \in {"", LiteralTemplateT} : ApiMutateCRDInfo(urnFormat)
    \/ ApiMutateLoadedCRDs
    \/ \E entry \in {"total_crds", "crds_per_file", "loaded_paths"}, pattern \in {"c.yaml"} :
           ApiMutateStatistics(entry, pattern)
    \/ \E parsedCCRN \in ApiResources : ApiValidateResource(parsedCCRN)
    \/ \E crdName \in LookupNames, version \in {"v1", "v2"} : ApiGetURNTemplate(crdName, version)

SpecApi == InitApi /\ [][NextApi]_vars

---------------------------------------------------------------------------
(* Properties of the Static Directory's operations, checked under SpecApi. *)

\* C11: no read operation hands out a mutable alias into the index: after
\* the caller has written to a value that GetCRD, GetLoadedCRDs or
\* GetLoadingStatistics returned, the directory is what it was before the
\* write, and so every later lookup answers as it would have without it.
C11_NoMutableAlias ==
    out.op = "Mutate" =>
        /\ fb = out.before
        /\ \A key \in LookupKeys : FsGetCRD(fb, key) = FsGetCRD(out.before, key)
        /\ FsRefresh(fb, disk) = FsRefresh(out.before, disk)

\* a caller has written to the descriptor GetCRD returned for a loaded type
C11_Witness ==
    /\ out.op = "Mutate" /\ out.arg = "GetCRD"
    /\ out.before.crds # EmptyMap


\* the documents of the YAML files a pattern resolves to, file after file
RECURSIVE DocsOf(_, _)
DocsOf(dsk, files) ==
    IF files = <<>> THEN <<>>
    ELSE (IF isYAMLFile(Head(files)) THEN dsk[Head(files)] ELSE <<>>) \o DocsOf(dsk, Tail(files))

SourceDocs(dsk, pattern) == DocsOf(dsk, Glob(dsk, pattern).files)

\* whether a pattern resolves to at least one file
Resolves(dsk, pattern) == Glob(dsk, pattern).err = NoErr /\ Len(Glob(dsk, pattern).files) > 0

\* structurally a type definition: a non-empty group, a non-empty kind name
\* and at least one served version carrying a structural schema
IsTypeDefinition(doc) ==
    /\ doc.yaml = "ok" /\ doc.Kind = CRDKind
    /\ doc.Group # "" /\ doc.NamesKind # ""
    /\ \E i \in 1..Len(doc.Versions) :
           /\ doc.Versions[i].Served
           /\ ~doc.Versions[i].Schema.nil /\ doc.Versions[i].Schema.openAPI

\* a well-formed type definition of the configured naming authority
WellFormedRelevant(doc) == IsTypeDefinition(doc) /\ Contains(doc.Group, CcrnGroup)

\* a document that is not blank and is no type definition
Malformed(doc) == doc.yaml # "empty" /\ ~IsTypeDefinition(doc)

CountDocs(docs, P(_)) == Cardinality({i \in 1..Len(docs) : P(docs[i])})

\* the type keys of a definition's served versions
ServedKeys(doc) == {servedKeys(doc)[i] : i \in 1..Len(servedKeys(doc))}

\* C12: bulk load partial success: when the source one LoadCRDs call
\* resolves to holds m >= 1 well-formed relevant type definitions and k
\* malformed documents, the call returns success, reports exactly m loaded
\* definitions, records exactly k errors, and all m types are in the index
\* afterwards.
C12_PartialSuccess ==
    (/\ out.op = "LoadCRDs"
     /\ Resolves(disk, out.arg)
     /\ CountDocs(SourceDocs(disk, out.arg), WellFormedRelevant) >= 1)
    => /\ out.fault = "none"
       /\ out.err = NoErr
       /\ out.answer.ProcessedCRDs = CountDocs(SourceDocs(disk, out.arg), WellFormedRelevant)
       /\ Len(out.answer.Errors) = CountDocs(SourceDocs(disk, out.arg), Malformed)
       /\ \A i \in 1..Len(SourceDocs(disk, out.arg)) :
              WellFormedRelevant(SourceDocs(disk, out.arg)[i])
                  => ServedKeys(SourceDocs(disk, out.arg)[i]) \subseteq DOMAIN fb.crds

\* a LoadCRDs met a well-formed relevant definition and a malformed
\* document in its source
C12_Witness ==
    /\ out.op = "LoadCRDs"
    /\ Resolves(disk, out.arg)
    /\ CountDocs(SourceDocs(disk, out.arg), WellFormedRelevant) >= 1
    /\ CountDocs(SourceDocs(disk, out.arg), Malformed) >= 1

\* C12, of the calls that return: the counts and the index are as stated
C12_PartialSuccessWhenReturning ==
    (/\ out.op = "LoadCRDs"
     /\ out.fault = "none"
     /\ Resolves(disk, out.arg)
     /\ CountDocs(SourceDocs(disk, out.arg), WellFormedRelevant) >= 1)
    => /\ out.err = NoErr
       /\ out.answer.ProcessedCRDs = CountDocs(SourceDocs(disk, out.arg), WellFormedRelevant)
       /\ Len(out.answer.Errors) = CountDocs(SourceDocs(disk, out.arg), Malformed)
       /\ \A i \in 1..Len(SourceDocs(disk, out.arg)) :
              WellFormedRelevant(SourceDocs(disk, out.arg)[i])
                  => ServedKeys(SourceDocs(disk, out.arg)[i]) \subseteq DOMAIN fb.crds

\* C13: LoadCRDs returns an error if and only if the pattern cannot be
\* resolved to at least one file, or zero type definitions were loaded from
\* the whole requested source and at least one error was recorded; in every
\* other case, a source of irrelevant documents included, it returns
\* success.
C13_ErrorIff ==
    out.op = "LoadCRDs" =>
        /\ out.fault = "none"
        /\ out.err # NoErr <=>
               \/ ~Resolves(disk, out.arg)
               \/ /\ CountDocs(SourceDocs(disk, out.arg), WellFormedRelevant) = 0
                  /\ CountDocs(SourceDocs(disk, out.arg), Malformed) > 0

\* a LoadCRDs of a source whose documents are all irrelevant returned
C13_Witness ==
    /\ out.op = "LoadCRDs" /\ out.fault = "none"
    /\ Resolves(disk, out.arg)
    /\ SourceDocs(disk, out.arg) # <<>>
    /\ \A i \in 1..Len(SourceDocs(disk, out.arg)) :
           /\ IsTypeDefinition(SourceDocs(disk, out.arg)[i])
           /\ ~Contains(SourceDocs(disk, out.arg)[i].Group, CcrnGroup)

\* C13, of the calls that return
C13_ErrorIffWhenReturning ==
    (out.op = "LoadCRDs" /\ out.fault = "none") =>
        (out.err # NoErr <=>
               \/ ~Resolves(disk, out.arg)
               \/ /\ CountDocs(SourceDocs(disk, out.arg), WellFormedRelevant) = 0
                  /\ CountDocs(SourceDocs(disk, out.arg), Malformed) > 0)


\* C14: ValidateResource for a type key that has no cached validator
\* returns a no-validator error, which no schema violation is reported as;
\* it never returns success, and it leaves the directory as it was.
C14_NoValidator ==
    (out.op = "ValidateResource" /\ out.arg \notin DOMAIN out.before.validators)
    => /\ out.fault = "none"
       /\ out.err # NoErr
       /\ out.err = Err("no schema validator available for ", out.arg, "")
       /\ \A r \in ApiResources :
              CCRNKey(r) \in DOMAIN out.before.validators
                  => /\ FsValidateResource(out.before, r) # out.err
                     /\ FsValidateResource(out.before, r).tag # out.err.tag
       /\ fb = out.before

\* ValidateResource was asked about a type whose descriptor is in the index
\* while no validator is, in a directory that holds validators for others
C14_Witness ==
    /\ out.op = "ValidateResource"
    /\ out.arg \in DOMAIN out.before.crds
    /\ out.arg \notin DOMAIN out.before.validators
    /\ \E r \in ApiResources :
           /\ CCRNKey(r) \in DOMAIN out.before.validators
           /\ FsValidateResource(out.before, r).tag = "validation failed for "

\* the loaded definitions of a name, over all files
LoadedNamed(fbr, crdName) ==
    UNION {{fbr.crdsByFile[f][i] : i \in {j \in 1..Len(fbr.crdsByFile[f]) :
                                              fbr.crdsByFile[f][j].Name = crdName}} :
               f \in DOMAIN fbr.crdsByFile}

\* the non-empty values of the annotation ccrn/<version>.urn-template that
\* the loaded definitions of a name carry
AnnotatedTemplates(fbr, crdName, version) ==
    {crd.Annotations[URNTemplateAnnotation(version)] :
        crd \in {c \in LoadedNamed(fbr, crdName) :
                    /\ URNTemplateAnnotation(version) \in DOMAIN c.Annotations
                    /\ c.Annotations[URNTemplateAnnotation(version)] # ""}}

\* C15: GetURNTemplate(name, version) returns a template if and only if a
\* loaded relevant definition named name carries a non-empty annotation
\* ccrn/<version>.urn-template, and then returns that annotation's value;
\* otherwise it returns an error and no template.  The absence of the
\* annotation is no load error: GetCRD for a served version of such a
\* definition still succeeds.
C15_TemplateIffAnnotated ==
    out.op = "GetURNTemplate" =>
        /\ out.fault = "none"
        /\ out.err = NoErr <=> AnnotatedTemplates(out.before, out.arg[1], out.arg[2]) # {}
        /\ out.err = NoErr => out.answer \in AnnotatedTemplates(out.before, out.arg[1], out.arg[2])
        /\ out.err # NoErr => out.answer = ""
        /\ \A crd \in LoadedNamed(out.before, out.arg[1]) :
               \A key \in ServedKeys(crd) : FsGetCRD(out.before, key).err = NoErr

\* GetURNTemplate returned the annotation of a loaded definition
C15_Witness ==
    /\ out.op = "GetURNTemplate"
    /\ out.err = NoErr
    /\ out.answer = URNTemplateT
    /\ AnnotatedTemplates(out.before, out.arg[1], out.arg[2]) = {URNTemplateT}


---------------------------------------------------------------------------
(* Properties of the field-list parser and of the rendering, checked       *)
(* under Spec.                                                             *)

UnknownFormat == Err("unknown format: must start with 'ccrn=' or 'urn:ccrn:'", "", "")

\* the verdict ValidateCCRN returns for an input of unknown format
RejectedUnparsed(v) ==
    /\ v.fault = "none" /\ ~v.nil
    /\ ~v.Valid
    /\ v.ParsedCCRN.nil
    /\ v.err = UnknownFormat
    /\ v.Errors = <<UnknownFormat>>
    /\ v.calls = <<>>

\* C16: for every input that begins with neither ccrn= nor urn:ccrn:, Parse
\* fails with the unknown-format error, and ValidateCCRN returns an Invalid
\* verdict carrying that error without invoking any directory operation.
C16_UnknownFormat ==
    (~HasPrefix(argInput, "ccrn=") /\ ~HasPrefix(argInput, "urn:ccrn:"))
    => /\ out.op = "Parse"
          => /\ out.r.fault = "none"
             /\ out.r.parsed.nil
             /\ out.r.err = UnknownFormat
             /\ out.r.calls = <<>>
       /\ out.op = "ValidateCCRN" => RejectedUnparsed(out.v) /\ RejectedUnparsed(out.bare)

\* ValidateCCRN has answered an input that differs from a field list only
\* by a leading blank
C16_Witness ==
    /\ out.op = "ValidateCCRN"
    /\ argInput = " ccrn=t.g/v1"
    /\ ~out.v.Valid

\* C17: field order is irrelevant: two field-list inputs that begin with the
\* same ccrn= entry and hold the same key=value entries in different orders
\* are parsed into equal field mappings.
C17_OrderIrrelevant ==
    out.op = "ParsePermuted" =>
        /\ out.x.err = NoErr <=> out.y.err = NoErr
        /\ out.x.parsed.Fields = out.y.parsed.Fields

\* two inputs that differ in the order of their entries were both parsed
C17_Witness ==
    /\ out.op = "ParsePermuted"
    /\ out.other # argInput
    /\ out.x.err = NoErr /\ out.y.err = NoErr
    /\ Cardinality(DOMAIN out.x.parsed.Fields) = MaxEntries + 1

\* C18: in a field-list parse every key and value is stored with the
\* surrounding blanks trimmed; a value wholly wrapped in one matching pair
\* of double quotes is stored without that pair and otherwise untouched,
\* any other value is stored as its trimmed text.
C18_TrimmedAndUnquoted ==
    out.op = "Parse" =>
        \A shape \in EntryShapes :
            argInput = EntryInput(shape)
                => /\ out.r.fault = "none" /\ out.r.err = NoErr
                   /\ out.r.parsed.Fields = ("ccrn" :> "t.g/v1") @@ ("name" :> shape.v)

\* a quoted value with blanks inside the quotes and around the entry's
\* parts was parsed
C18_Witness ==
    /\ out.op = "Parse"
    /\ argInput = "ccrn=t.g/v1, name = \" p \"  "
    /\ out.r.err = NoErr
    /\ out.r.parsed.Fields["name"] = " p "

\* the comma-separated entries of a field-list input
EntriesOf(input) == Split(input, ",")

\* the key of an entry: what stands before its first "=", trimmed
KeyOf(entry) == TrimSpace(SplitN(entry, "=", 2)[1])

\* C19 as stated: if any comma-separated entry of a field-list input is not
\* of the form key=value, Parse fails with a malformed-input error naming
\* that entry and returns no mapping; otherwise each entry is split at its
\* first "=" and contributes its key to the mapping.
C19_EveryEntryKeyValue ==
    (out.op = "Parse" /\ HasPrefix(argInput, "ccrn="))
    => IF \E i \in 1..Len(EntriesOf(argInput)) : ~Contains(EntriesOf(argInput)[i], "=")
       THEN /\ out.r.fault = "none"
            /\ out.r.parsed.nil
            /\ out.r.err.tag = "invalid field format: "
            /\ \E i \in 1..Len(EntriesOf(argInput)) :
                   /\ ~Contains(EntriesOf(argInput)[i], "=")
                   /\ out.r.err.a = TrimSpace(EntriesOf(argInput)[i])
       ELSE /\ out.r.fault = "none" /\ out.r.err = NoErr
            /\ \A i \in 1..Len(EntriesOf(argInput)) :
                   KeyOf(EntriesOf(argInput)[i]) \in DOMAIN out.r.parsed.Fields

\* the entries that are not blank
FilledEntries(input) == SelectSeq(EntriesOf(input), LAMBDA entry : TrimSpace(entry) # "")

\* C19, amended: blank entries are passed over.  If any entry that is not
\* blank is not of the form key=value, Parse fails with a malformed-input
\* error naming the first such entry and returns no mapping; otherwise each
\* entry that is not blank is split at its first "=" and contributes its key
\* to the mapping.
C19_EveryFilledEntryKeyValue ==
    (out.op = "Parse" /\ HasPrefix(argInput, "ccrn="))
    => IF \E i \in 1..Len(FilledEntries(argInput)) : ~Contains(FilledEntries(argInput)[i], "=")
       THEN /\ out.r.fault = "none"
            /\ out.r.parsed.nil
            /\ out.r.err.tag = "invalid field format: "
            /\ \E i \in 1..Len(FilledEntries(argInput)) :
                   /\ ~Contains(FilledEntries(argInput)[i], "=")
                   /\ \A j \in 1..(i - 1) : Contains(FilledEntries(argInput)[j], "=")
                   /\ out.r.err.a = TrimSpace(FilledEntries(argInput)[i])
       ELSE /\ out.r.fault = "none" /\ out.r.err = NoErr
            /\ DOMAIN out.r.parsed.Fields =
                   {KeyOf(FilledEntries(argInput)[i]) : i \in 1..Len(FilledEntries(argInput))}

\* Parse has refused an input for an entry without "=" that follows a
\* blank entry and an entry of the right form
C19_Witness ==
    /\ out.op = "Parse"
    /\ argInput = "ccrn=t.g/v1,, bad"
    /\ out.r.err = Err("invalid field format: ", "bad", " (must be key=value)")
    /\ out.r.parsed.nil

\* the template with, for each field name, the first occurrence of its
\* placeholder replaced by the field's value, read from left to right; the
\* values put in are not looked at again
RECURSIVE Substituted(_, _, _)
Substituted(tmpl, fields, used) ==
    IF tmpl = "" THEN ""
    ELSE LET hits == {n \in DOMAIN fields \ used : HasPrefix(tmpl, "<" \o n \o ">")}
         IN  IF hits # {}
             THEN LET n == CHOOSE n \in hits : TRUE
                  IN  fields[n] \o Substituted(SubSeq(tmpl, Len(n) + 3, Len(tmpl)), fields,
                                               used \cup {n})
             ELSE SubSeq(tmpl, 1, 1) \o Substituted(SubSeq(tmpl, 2, Len(tmpl)), fields, used)

\* C20: URN(template) returns the template in which, for each field name n,
\* the first occurrence of the placeholder <n> is replaced by fields[n]
\* put in literally; a placeholder that names no field stays as it is, and
\* no other character of the template changes.
C20_URNSubstitutes ==
    out.op = "URN" => out.urn = Substituted(argTemplate, out.p.Fields, {})

\* a template with a placeholder that names a field and one that names none
\* was rendered
C20_Witness ==
    /\ out.op = "URN"
    /\ argTemplate = URNTemplateT
    /\ "cluster" \in DOMAIN out.p.Fields
    /\ "name" \notin DOMAIN out.p.Fields
    /\ out.urn = "urn:ccrn:" \o out.p.Fields["ccrn"] \o "/" \o out.p.Fields["cluster"] \o "/<name>"

---------------------------------------------------------------------------
(* Properties of the admission handler, checked under Spec.                *)

\* the placeholders of a template that name no field of the resource
MissingPlaceholders(fields, template) ==
    {part \in {BodyParts(template)[i] : i \in 1..Len(BodyParts(template))} :
        IsPlaceholder(part) /\ SubSeq(part, 2, Len(part) - 1) \notin DOMAIN fields}

\* the templates the directory may answer for the type of spec.ccrn
TemplatesOf(fields) ==
    {t.template : t \in {a \in BackendGetURNTemplate(theBackend,
                                                      CCRNName(ParsedResource("CCRN", fields, "")),
                                                      Version(ParsedResource("CCRN", fields, ""))) :
                             a.err = NoErr}}

\* C21: when the handler renders the missing URN of a validated resource,
\* a rendering that cannot be completed emits no patch: with no template
\* for the type there is no patch, and the value of a /spec/urn patch
\* holds no placeholder of the template for which the resource has no
\* field.
C21_NoPartialRendering ==
    (out.op = "Admission" /\ out.resp.fault = "none" /\ out.resp.Allowed
     /\ out.request.CCRN # "" /\ out.request.URN = "")
    => LET rendered(fields) ==
               /\ TemplatesOf(fields) = {} => out.resp.patches = <<>>
               /\ \A i \in 1..Len(out.resp.patches) :
                      /\ out.resp.patches[i].path = "/spec/urn"
                      /\ out.resp.patches[i].value # ""
                      /\ \A template \in TemplatesOf(fields) :
                         \A part \in MissingPlaceholders(fields, template) :
                             ~Contains(out.resp.patches[i].value, part)
       IN  rendered(parseCCRNFields(out.request.CCRN).fields)

C21_Witness ==
    /\ out.op = "Admission" /\ out.resp.fault = "none" /\ out.resp.Allowed
    /\ out.request.URN = ""
    /\ Len(out.resp.patches) = 1
    /\ out.resp.patches[1].path = "/spec/urn"

\* the string of a request the handler hands to the orchestrator
Submitted(request) == IF request.CCRN # "" THEN request.CCRN ELSE request.URN

\* the orchestrator judged the submitted string Valid, and ValidateResource
\* returns nil for the resource it parsed
JudgedValid(request) ==
    \E v \in ValidateCCRN(theBackend, Submitted(request)) :
        /\ v.fault = "none" /\ v.Valid /\ ~v.ParsedCCRN.nil
        /\ BackendValidateResource(theBackend, v.ParsedCCRN).err = NoErr

C22_RefusedWitness ==
    /\ out.op = "Admission" /\ out.resp.fault = "none"
    /\ ~out.resp.Allowed
    /\ out.resp.calls # <<>>

---------------------------------------------------------------------------
(* Properties of LoadCRDsFromDirectory, checked under SpecApi.             *)

\* the files LoadCRDsFromDirectory(dir) looks at
DirectoryFiles(dsk, dir) ==
    {f \in DOMAIN dsk :
        \E pattern \in {JoinPath(dir, "*.yaml"), JoinPath(dir, "*.yml"),
                         JoinPath(dir, "**/*.yaml"), JoinPath(dir, "**/*.yml")} :
            MatchPath(pattern, f)}

\* dir holds a well-formed type definition of the configured authority
YieldsDefinition(dsk, dir) ==
    \E f \in DirectoryFiles(dsk, dir) :
        \E i \in 1..Len(dsk[f]) : WellFormedRelevant(dsk[f][i])

\* C23: LoadCRDsFromDirectory(dir), when it returns, returns an error
\* whenever dir yields no loaded type definition, whatever the index held
\* before the call, and returns nil whenever at least one definition was
\* loaded from dir.
C23_ErrorIffNothingLoaded ==
    (out.op = "LoadCRDsFromDirectory" /\ out.fault = "none")
    => /\ ~YieldsDefinition(disk, out.arg) => out.err # NoErr
       /\ YieldsDefinition(disk, out.arg) => out.err = NoErr

\* the two cases of a directory without a YAML file, and the case of a
\* directory with a definition
C23_NoFileOrSomeDefinition ==
    (out.op = "LoadCRDsFromDirectory" /\ out.fault = "none")
    => /\ DirectoryFiles(disk, out.arg) = {}
          => out.err # NoErr /\ fb = out.before
       /\ YieldsDefinition(disk, out.arg)
          => out.err = NoErr /\ out.answer > 0

\* LoadCRDsFromDirectory ran on a directory without a definition while the
\* index held a type
C23_Witness ==
    /\ out.op = "LoadCRDsFromDirectory" /\ out.fault = "none"
    /\ ~YieldsDefinition(disk, out.arg)
    /\ out.before.crds # EmptyMap

---------------------------------------------------------------------------
(* Properties of the steps of one ValidateCCRN call, checked under Spec.   *)

\* the positions of the calls of one operation in a log of backend calls
CallsOf(calls, op) == {i \in 1..Len(calls) : calls[i].op = op}

\* C24: within one ValidateCCRN call the steps run in the order parse,
\* type-support check, value validation: ValidateResource is invoked at
\* most once, as the last backend call, right after the one
\* IsResourceTypeSupported call that answered true for the same type key,
\* and every lookup of the parse comes before that check; it is not
\* invoked when the parse (the re-parse of a URN with the resolved
\* template included) failed or when the directory does not know the type.
C24_StepsInOrder ==
    out.op = "ValidateCCRN"
    => LET calls == out.v.calls
           ordered ==
               /\ Cardinality(CallsOf(calls, "ValidateResource")) <= 1
               /\ Cardinality(CallsOf(calls, "IsResourceTypeSupported")) <= 1
               /\ \A i \in CallsOf(calls, "ValidateResource") :
                      /\ i = Len(calls)
                      /\ i > 1
                      /\ calls[i - 1].op = "IsResourceTypeSupported"
                      /\ calls[i - 1].ok
                      /\ calls[i - 1].key = calls[i].key
                      /\ calls[i].key \in DOMAIN fb.crds
                      /\ ~out.v.ParsedCCRN.nil
                      /\ \E p \in Parse(theBackend, argInput, DEFAULT_URN_TEMPLATE) :
                             p.fault = "none" /\ p.err = NoErr
               /\ \A i \in CallsOf(calls, "IsResourceTypeSupported") :
                      \A j \in CallsOf(calls, "GetURNTemplate") \cup CallsOf(calls, "GetCRD") : j < i
           parseFailed ==
               \A p \in Parse(theBackend, argInput, DEFAULT_URN_TEMPLATE) : p.err # NoErr
       IN  /\ ordered
           /\ parseFailed
              => /\ CallsOf(calls, "ValidateResource") = {}
                 /\ CallsOf(calls, "IsResourceTypeSupported") = {}
           /\ (\E i \in CallsOf(calls, "IsResourceTypeSupported") : ~calls[i].ok)
              => CallsOf(calls, "ValidateResource") = {}

\* a field list of a type the directory does not know ended at the
\* type-support check
C24_Witness ==
    /\ out.op = "ValidateCCRN"
    /\ HasPrefix(argInput, "ccrn=")
    /\ Len(out.v.calls) = 1
    /\ out.v.calls[1].op = "IsResourceTypeSupported"
    /\ ~out.v.calls[1].ok
    /\ ~out.v.Valid

\* a call that went through the three steps
C24_AllStepsWitness ==
    /\ out.op = "ValidateCCRN"
    /\ Len(out.v.calls) = 2
    /\ out.v.calls[2].op = "ValidateResource"
    /\ ~out.v.calls[2].ok

\* the verdict of a call that ended at a failed step: Invalid, with the
\* error of that step returned and as the one entry of Errors, and the
\* backend calls made up to that step
EndedAt(v, err, calls) ==
    /\ ~v.nil /\ ~v.Valid
    /\ v.err = err
    /\ v.Errors = <<err>>
    /\ v.calls = calls

C25_ReparseWitness ==
    /\ out.op = "ValidateCCRN" /\ HasPrefix(argInput, "urn:ccrn:") /\ out.v.fault = "none"
    /\ out.v.calls # <<>>
    /\ out.v.calls[1].ok
    /\ out.v.err # NoErr

---------------------------------------------------------------------------
(* Properties of overlapping and of failed Refresh calls of the Live       *)
(* Directory, checked under SpecLive.                                      *)

\* no goroutine is in a Refresh
NoRefreshRunning == \A g \in Goroutines : kproc[g].pc \notin {"list", "lock", "fill"}

\* C26: when the Refresh calls on one Live Directory, overlapping or not,
\* have all completed, the index is exactly the filtered listing obtained
\* by the Refresh whose replacement completed last, and so never a
\* mixture of two listings; the same holds whenever the lock is free.
C26_LastWriterWins ==
    /\ NoRefreshRunning => kb.ccrns = FilteredListing(klast.listed, CcrnGroup)
    /\ kbLock = "free" => kb.ccrns = FilteredListing(klast.listed, CcrnGroup)
    /\ \E cl \in Clusters : klast.listed = cl.items

\* two Refresh calls overlapped and have completed; the one that wrote
\* last had listed before the control plane changed, and the index is its
\* listing, older than the listing of the other
C26_Witness ==
    /\ NoRefreshRunning
    /\ klast.overlapped
    /\ FilteredListing(klast.listed, CcrnGroup) # FilteredListing(klast.prev, CcrnGroup)
    /\ klast.listed # <<>>
    /\ cluster.up /\ klast.prev = cluster.items
    /\ kb.ccrns = FilteredListing(klast.listed, CcrnGroup)

\* the step in which the List of goroutine g's Refresh fails
ListFails(g) == kproc[g].pc = "list" /\ ~cluster.up /\ kproc'[g] # kproc[g]

\* the step in which a Refresh whose List failed returns: the error is
\* returned, the lock is not taken, the index is what it was, and the
\* goroutine does not list again within the call
FailedRefreshReturns(g) ==
    ListFails(g)
    => /\ kproc'[g].ret = Err("failed to list CRDs: ", "unavailable", "")
       /\ kproc'[g].pc = IF kproc[g].op = "GetCRD" THEN "recheck" ELSE "idle"
       /\ kb' = kb /\ kbLock' = kbLock /\ khist' = khist

\* the step in which GetCRD answers after its Refresh has failed
AnswersAfterFailure ==
    /\ kproc["caller"].pc = "recheck"
    /\ kproc["caller"].ret # NoErr
    /\ kproc'["caller"].pc = "idle"

\* C27 as stated: when the listing fails, Refresh returns the error
\* without a retry and without touching the index, and a GetCRD whose
\* miss-triggered Refresh failed reports the type as not found.
C27_FailedRefreshNotFound ==
    [][/\ \A g \in Goroutines : FailedRefreshReturns(g)
       /\ AnswersAfterFailure => (kobs'.op = "GetCRD" /\ ~kobs'.answer)]_vars

\* C27, amended: when the listing fails, Refresh returns the error without
\* a retry and without touching the index, and a GetCRD whose
\* miss-triggered Refresh failed makes no further Refresh and answers from
\* its second read of the index: not found when the index is the one its
\* first read missed in, found only when a Refresh of another goroutine
\* has installed the type in between.
C27_FailedRefreshSecondRead ==
    [][/\ \A g \in Goroutines : FailedRefreshReturns(g)
       /\ AnswersAfterFailure
          => /\ kobs'.op = "GetCRD" /\ kobs'.refreshes = 1
             /\ kb' = kb /\ kproc'["caller"].ret = kproc["caller"].ret
             /\ kobs'.answer <=> kproc["caller"].key \in DOMAIN kb.ccrns
             /\ (kobs.op = "GetCRD.miss" /\ kobs.ccrns = kb.ccrns) => ~kobs'.answer
             /\ kobs'.answer => kb.ccrns \in khist]_vars

\* a GetCRD whose miss-triggered Refresh failed has answered not found
C27_Witness ==
    /\ kobs.op = "GetCRD" /\ kobs.missed /\ kobs.refreshes = 1
    /\ ~kobs.answer
    /\ kproc["caller"].pc = "idle"
    /\ kproc["caller"].ret # NoErr
    /\ kb.ccrns = EmptyMap

\* a GetCRD whose miss-triggered Refresh failed has answered found
C27_FoundWitness ==
    /\ kobs.op = "GetCRD" /\ kobs.missed /\ kobs.refreshes = 1
    /\ kobs.answer
    /\ kproc["caller"].pc = "idle"
    /\ kproc["caller"].ret # NoErr

---------------------------------------------------------------------------
(* The refresh loop under fair scheduling: the ticker of the refresh       *)
(* loop keeps firing, a goroutine inside Refresh keeps running, and a      *)
(* goroutine waiting for crdsMutex gets it in the end (sync.RWMutex does   *)
(* not starve a waiting writer).  Lookups and changes of the control plane *)
(* may or may not happen.                                                  *)

LiveFairness ==
    /\ WF_vars(K8sTick)
    /\ \A g \in Goroutines :
           /\ WF_vars(K8sList(g))
           /\ SF_vars(K8sLockAndClear(g))
           /\ WF_vars(K8sFill(g))

\* the refresh loop, the Refresh calls of GetCRD misses, and the changes of
\* the control plane
NextLoop ==
    \/ K8sTick
    \/ \E key \in LiveKeys : K8sCallGetCRD(key)
    \/ \E g \in Goroutines : K8sList(g)
    \/ \E g \in Goroutines : K8sLockAndClear(g)
    \/ \E g \in Goroutines : K8sFill(g)
    \/ K8sRecheck
    \/ K8sClusterChange

SpecLoop == InitLive /\ [][NextLoop]_vars /\ LiveFairness

\* C28: after StartRefreshLoop the loop makes a Refresh attempt again and
\* again, whether or not a lookup happens and whatever its attempts
\* returned; and once the control plane stays reachable with one listing,
\* from some moment on the index (whenever the lock is free) is the
\* filtered listing of it.
C28_LoopConverges ==
    /\ []<>(kproc["loop"].pc = "list")
    /\ \A cl \in {c \in Clusters : c.up} :
           <>[](cluster = cl)
               => <>[](kbLock = "free" => kb.ccrns = FilteredListing(cl.items, CcrnGroup))

\* the attempt after a failed one has listed the control plane and has
\* filled the index with that listing
C28_Witness ==
    /\ kproc["loop"].pc = "fill"
    /\ kproc["loop"].ret # NoErr
    /\ kproc["loop"].ii > Len(kproc["loop"].listed)
    /\ kproc["loop"].listed = cluster.items
    /\ kb.ccrns = FilteredListing(cluster.items, CcrnGroup)
    /\ kb.ccrns # EmptyMap

---------------------------------------------------------------------------
(* Two goroutines in LoadCRDs on one Static Directory.  The statement      *)
(* fb.loadedPaths = append(fb.loadedPaths, pattern) runs with no lock      *)
(* held: it reads the slice and then writes the longer slice back, and     *)
(* the other goroutine may run between the two.                            *)

Loaders == {"w1", "w2"}

RaceDisk == DiskOf(<<DocT(URNTemplateT)>>, <<DocU>>)
RacePatterns == {"a.yaml", "b.yaml", "c.yaml"}

\* the append of line 120 reads fb.loadedPaths
FsReadPaths(w) ==
    /\ Alive /\ fproc[w].pc = "append"
    /\ fproc' = [fproc EXCEPT ![w].pc = "appendWrite", ![w].seen = fb.loadedPaths]
    /\ UNCHANGED <<fb, disk, fbLock, fobs, parseVars, k8sVars>>

\* the append of line 120 writes fb.loadedPaths, and LoadCRDs returns
FsWritePaths(w) ==
    /\ Alive /\ fproc[w].pc = "appendWrite"
    /\ fb' = [fb EXCEPT !.loadedPaths = Append(fproc[w].seen, fproc[w].pattern)]
    /\ fproc' = [fproc EXCEPT ![w] =
           afterLoad([@ EXCEPT !.ret = loadCRDsReturn(fproc[w].result)], disk)]
    /\ UNCHANGED <<disk, fbLock, fobs, parseVars, k8sVars>>

\* GetLoadingStatistics, under RLock
FsLookupGetLoadingStatistics ==
    /\ Alive /\ rlockGranted(fbLock)
    /\ fobs' = Observed("GetLoadingStatistics", "", GetLoadingStatistics(fb))
    /\ UNCHANGED <<fb, disk, fbLock, fproc, parseVars, k8sVars>>

InitRace ==
    /\ argInput = "" /\ argTemplate = "" /\ out = NoOut
    /\ fb = NewOfflineBackend(CcrnGroup)
    /\ disk = RaceDisk
    /\ fbLock = "free"
    /\ fproc = [w \in Loaders |-> Idle]
    /\ fobs = NoObs
    /\ K8sAtRest

NextRace ==
    \/ \E w \in Loaders, pattern \in RacePatterns : FsCallLoadCRDs(w, pattern)
    \/ \E w \in Loaders : FsProcessDocument(w)
    \/ \E w \in Loaders : FsStoreDescriptor(w)
    \/ \E w \in Loaders : FsCreateValidator(w)
    \/ \E w \in Loaders : FsStoreFile(w)
    \/ \E w \in Loaders : FsReadPaths(w)
    \/ \E w \in Loaders : FsWritePaths(w)
    \/ FsLookupGetLoadingStatistics

SpecRace == InitRace /\ [][NextRace]_vars

\* the patterns a list holds
PathsIn(paths) == {paths[i] : i \in 1..Len(paths)}

\* the goroutine's LoadCRDs resolved its pattern to files and has returned
Recorded(w) ==
    /\ fproc[w].op = "LoadCRDs" /\ fproc[w].pc = "idle"
    /\ fproc[w].files # <<>>

\* every step that reads or writes fb.loadedPaths is made by a goroutine
\* that holds crdsMutex
C29_PathsUnderLock ==
    \A w \in Loaders : fproc[w].pc \in {"append", "appendWrite"} => fbLock = w

\* C29: the shared state of a directory instance is only read and written
\* under its lock, so that concurrent LoadCRDs calls lose no recorded
\* pattern: the pattern of every LoadCRDs call that resolved to files and
\* has returned is in the recorded list.
C29_NoPatternLost ==
    \A w \in Loaders : Recorded(w) => fproc[w].pattern \in PathsIn(fb.loadedPaths)

\* two LoadCRDs calls of different patterns have returned
C29_Witness ==
    /\ \A w \in Loaders : Recorded(w)
    /\ fproc["w1"].pattern # fproc["w2"].pattern
    /\ fproc["w1"].ret = NoErr /\ fproc["w2"].ret = NoErr

---------------------------------------------------------------------------
(* The recorded list of source patterns over LoadCRDs and Refresh calls.   *)

\* the call that has just returned was accepted
Accepted == out.fault = "none" /\ out.err = NoErr

\* C30: the recorded list of source patterns holds one entry per accepted
\* caller-issued LoadCRDs call and nothing else: an accepted LoadCRDs
\* appends its pattern, a LoadCRDs that returned an error records nothing,
\* and Refresh leaves the list as it found it.
C30_OneEntryPerAcceptedLoad ==
    /\ out.op = "LoadCRDs" =>
           fb.loadedPaths = IF Accepted
                            THEN Append(out.before.loadedPaths, out.arg)
                            ELSE out.before.loadedPaths
    /\ out.op = "Refresh" /\ out.fault = "none" =>
           fb.loadedPaths = out.before.loadedPaths

\* an accepted LoadCRDs appends exactly its pattern
C30_AcceptedLoadAppends ==
    out.op = "LoadCRDs" /\ Accepted =>
        fb.loadedPaths = Append(out.before.loadedPaths, out.arg)

\* a LoadCRDs that returned an error records nothing
C30_RefusedLoadRecordsNothing ==
    out.op = "LoadCRDs" /\ out.fault = "none" /\ out.err # NoErr =>
        fb.loadedPaths = out.before.loadedPaths

\* Refresh leaves the list as it found it
C30_RefreshKeepsPaths ==
    out.op = "Refresh" /\ out.fault = "none" =>
        fb.loadedPaths = out.before.loadedPaths

\* a Refresh has returned on a directory with one accepted pattern
C30_Witness ==
    /\ out.op = "Refresh" /\ Accepted
    /\ Len(out.before.loadedPaths) = 1

---------------------------------------------------------------------------
(* The documents a Static load accepts, rejects and skips.                 *)

\* a LoadCRDs call has returned that resolved its pattern to files
LoadReturned ==
    /\ out.op = "LoadCRDs" /\ out.fault = "none"
    /\ Resolves(disk, out.arg)

\* the documents of the source that are not blank
NonEmptyDocs(docs) == CountDocs(docs, LAMBDA doc : doc.yaml # "empty")

\* the definitions the call counted as loaded, file by file
AcceptedDocs ==
    UNION {{fb.crdsByFile[f][i] : i \in 1..Len(fb.crdsByFile[f])} : f \in DOMAIN fb.crdsByFile}

\* C31: a Static load accepts a non-empty sub-document only if it has a
\* non-empty group, a non-empty kind name and at least one served version
\* carrying a structural schema; every other non-empty sub-document is
\* rejected with exactly one recorded error, and every document of the
\* batch is processed: accepted, skipped or rejected.
C31_AcceptsOnlyTypeDefinitions ==
    LoadReturned =>
        /\ \A doc \in AcceptedDocs : IsTypeDefinition(doc)
        /\ out.answer.ProcessedCRDs <= CountDocs(SourceDocs(disk, out.arg), WellFormedRelevant)
        /\ Len(out.answer.Errors) = CountDocs(SourceDocs(disk, out.arg), Malformed)
        /\ out.answer.ErrorCount = Len(out.answer.Errors)
        /\ out.answer.ProcessedCRDs + out.answer.SkippedCRDs + out.answer.ErrorCount
               = NonEmptyDocs(SourceDocs(disk, out.arg))

\* what the code tests in place of a served version with a schema: some
\* version, served or not, carries one
PassesStructure(doc) == doc.yaml = "ok" /\ validateCRDStructure(doc) = NoErr

\* the accounting of a load that returns: one error for each document that
\* fails validateCRDStructure, and every non-empty document counted once
C31_OneErrorPerRejected ==
    LoadReturned =>
        /\ \A doc \in AcceptedDocs : PassesStructure(doc)
        /\ Len(out.answer.Errors)
               = CountDocs(SourceDocs(disk, out.arg),
                           LAMBDA doc : doc.yaml # "empty" /\ ~PassesStructure(doc))
        /\ out.answer.ProcessedCRDs + out.answer.SkippedCRDs + out.answer.ErrorCount
               = NonEmptyDocs(SourceDocs(disk, out.arg))

\* a load has returned whose source holds a definition with no served
\* version, a rejected document and a well-formed definition
C31_Witness ==
    /\ LoadReturned
    /\ \E doc \in AcceptedDocs : ~IsTypeDefinition(doc)
    /\ Len(out.answer.Errors) >= 1
    /\ CountDocs(SourceDocs(disk, out.arg), WellFormedRelevant) >= 1

---------------------------------------------------------------------------
(* The naming-authority filter.                                            *)

\* a document that parses and whose group lacks the configured substring
Irrelevant(doc) == doc.yaml = "ok" /\ ~Contains(doc.Group, CcrnGroup)

\* every descriptor of the index is of the configured naming authority
IndexRelevant == \A k \in DOMAIN fb.crds : Contains(fb.crds[k].Group, fb.ccrnGroup)

\* C32, as stated: every descriptor in the index has a group that contains
\* the configured substring; a document whose group does not contain it is
\* never indexed, and is counted as skipped and never as an error.
C32_IrrelevantOnlySkipped ==
    /\ IndexRelevant
    /\ LoadReturned =>
           /\ \A doc \in AcceptedDocs : ~Irrelevant(doc)
           /\ out.answer.SkippedCRDs = CountDocs(SourceDocs(disk, out.arg), Irrelevant)

\* C32, amended: every descriptor in the index has a group that contains
\* the configured substring; a document whose group does not contain it is
\* never indexed, and when it passes the structural check it is counted
\* as skipped and not as an error (when it fails the check it is an error).
C32_ValidIrrelevantOnlySkipped ==
    /\ IndexRelevant
    /\ LoadReturned =>
           /\ \A doc \in AcceptedDocs : ~Irrelevant(doc)
           /\ out.answer.SkippedCRDs
                  = CountDocs(SourceDocs(disk, out.arg),
                              LAMBDA doc : Irrelevant(doc) /\ PassesStructure(doc))
           /\ out.answer.ErrorCount
                  = CountDocs(SourceDocs(disk, out.arg),
                              LAMBDA doc : doc.yaml # "empty" /\ ~PassesStructure(doc))

\* the Live Directory: every descriptor of its index is of the configured
\* naming authority
C32_LiveIndexRelevant == \A k \in DOMAIN kb.ccrns : Contains(kb.ccrns[k].Group, kb.ccrnGroup)

\* a load has returned that skipped a definition of another authority and
\* rejected a second one, with a type of its own authority indexed
C32_Witness ==
    /\ LoadReturned
    /\ out.answer.SkippedCRDs >= 1
    /\ CountDocs(SourceDocs(disk, out.arg), Irrelevant) > out.answer.SkippedCRDs
    /\ DOMAIN fb.crds # {}

---------------------------------------------------------------------------
(* The keys of the index.                                                  *)

\* the lowercase form of a descriptor's kind.group/version
LowerKey(info) == ToLower(info.Kind \o "." \o info.Group \o "/" \o info.Version)

\* the keys of the served versions of a set of definitions
KeysServedBy(docs) ==
    UNION {{ToLower(doc.NamesKind \o "." \o doc.Group \o "/" \o doc.Versions[i].Name) :
               i \in {j \in 1..Len(doc.Versions) : doc.Versions[j].Served}} : doc \in docs}

\* the definitions of a listing that are of the naming authority
RelevantItems(items, ccrnGroup) ==
    {items[i] : i \in {j \in 1..Len(items) : Contains(items[j].Group, ccrnGroup)}}

\* C33: in both directories every index entry is stored under the
\* lowercase kind.group/version of its own descriptor, the keys of the
\* index are those of the served versions of the accepted relevant
\* definitions (none for a version that is not served), and
\* IsResourceTypeSupported(k) is true exactly when the index holds k.
C33_IndexKeyedByTypeKey ==
    (IF out.op = "none" THEN TRUE ELSE out.fault = "none") =>
        /\ \A k \in DOMAIN fb.crds : k = LowerKey(fb.crds[k])
        /\ DOMAIN fb.crds = KeysServedBy(AcceptedDocs)
        /\ (IF out.op = "IsResourceTypeSupported"
            THEN out.answer <=> out.arg \in DOMAIN fb.crds
            ELSE TRUE)
        /\ \A cl \in Clusters :
               /\ \A k \in DOMAIN FilteredListing(cl.items, CcrnGroup) :
                      k = LowerKey(FilteredListing(cl.items, CcrnGroup)[k])
               /\ DOMAIN FilteredListing(cl.items, CcrnGroup)
                      = KeysServedBy(RelevantItems(cl.items, CcrnGroup))

\* the Live Directory, at every step of its refreshes
C33_LiveIndexKeyed ==
    /\ \A k \in DOMAIN kb.ccrns : k = LowerKey(kb.ccrns[k])
    /\ \A key \in LiveKeys :
           K8sIsResourceTypeSupported(kb, cluster, key).supported <=> key \in DOMAIN kb.ccrns

\* IsResourceTypeSupported has answered true on an index that holds the
\* served versions of a definition with a version that is not served
C33_Witness ==
    /\ out.op = "IsResourceTypeSupported" /\ out.answer
    /\ \E doc \in AcceptedDocs :
           /\ \E i \in 1..Len(doc.Versions) : ~doc.Versions[i].Served
           /\ \E i \in 1..Len(doc.Versions) : doc.Versions[i].Served
    /\ \E k \in DOMAIN fb.crds : fb.crds[k].Kind # ToLower(fb.crds[k].Kind)

---------------------------------------------------------------------------
(* Served versions for which no validator can be built.                    *)

\* a served version that carries no schema block, or a schema block
\* without an openAPIV3Schema
Unbuildable(version) ==
    version.Served /\ (version.Schema.nil \/ ~version.Schema.openAPI)

\* the well-formed relevant definitions of a source
DefinitionsOf(docs) == {docs[i] : i \in {j \in 1..Len(docs) : WellFormedRelevant(docs[j])}}

\* a version of a definition and its key
VersionKey(doc, i) == ToLower(doc.NamesKind \o "." \o doc.Group \o "/" \o doc.Versions[i].Name)

\* the load is over and every served version of the source's definitions
\* is indexed, with a validator exactly when one can be built for it
LoadedWithValidators ==
    /\ out.fault = "none"
    /\ out.err = NoErr
    /\ \A doc \in DefinitionsOf(SourceDocs(disk, out.arg)) :
           \A i \in 1..Len(doc.Versions) :
               doc.Versions[i].Served =>
                   /\ VersionKey(doc, i) \in DOMAIN fb.crds
                   /\ VersionKey(doc, i) \in DOMAIN fb.validators <=> ~Unbuildable(doc.Versions[i])

\* C34: a served version for which no validator can be built, because the
\* build fails or because the version carries no schema, never fails or
\* aborts the load: LoadCRDs completes with success, the other versions and
\* definitions are indexed with their validators, and the affected type is
\* indexed without a validator.
C34_NoValidatorNeverAborts ==
    (/\ out.op = "LoadCRDs"
     /\ Resolves(disk, out.arg)
     /\ \E doc \in DefinitionsOf(SourceDocs(disk, out.arg)) :
            \E i \in 1..Len(doc.Versions) : Unbuildable(doc.Versions[i]))
    => LoadedWithValidators

\* C34 for a version whose schema block has no openAPIV3Schema, every
\* served version of the source carrying a schema block
C34_FailedBuildNeverAborts ==
    (/\ out.op = "LoadCRDs"
     /\ Resolves(disk, out.arg)
     /\ \E doc \in DefinitionsOf(SourceDocs(disk, out.arg)) :
            \E i \in 1..Len(doc.Versions) : Unbuildable(doc.Versions[i])
     /\ \A j \in 1..Len(SourceDocs(disk, out.arg)) :
            \A i \in 1..Len(SourceDocs(disk, out.arg)[j].Versions) :
                SourceDocs(disk, out.arg)[j].Versions[i].Served
                    => ~SourceDocs(disk, out.arg)[j].Versions[i].Schema.nil)
    => LoadedWithValidators

\* a LoadCRDs met a definition with a served version that has no schema
\* block beside a version that has one
C34_Witness ==
    /\ out.op = "LoadCRDs"
    /\ Resolves(disk, out.arg)
    /\ \E doc \in DefinitionsOf(SourceDocs(disk, out.arg)) :
           /\ \E i \in 1..Len(doc.Versions) :
                  doc.Versions[i].Served /\ doc.Versions[i].Schema.nil
           /\ \E i \in 1..Len(doc.Versions) : ~Unbuildable(doc.Versions[i])

\* a LoadCRDs has returned that indexed a served version without validator
C34_FailedBuildWitness ==
    /\ LoadReturned /\ out.err = NoErr
    /\ \E k \in DOMAIN fb.crds : k \notin DOMAIN fb.validators
    /\ DOMAIN fb.validators # {}

---------------------------------------------------------------------------
(* The Static and the Live Directory on the same definitions.              *)

\* the descriptor shape both directories hold
Shape(info) ==
    [Name |-> info.Name, Plural |-> info.Plural, Singular |-> info.Singular,
     Group |-> info.Group, Kind |-> info.Kind, Version |-> info.Version,
     URNFormat |-> info.URNFormat]

ShapeOf(index) == [k \in DOMAIN index |-> Shape(index[k])]

\* the documents of a source as a set, when each is a structurally valid
\* type definition and no two carry the same name (a control plane holds
\* one definition per name)
DefinitionSet(docs) == {docs[i] : i \in 1..Len(docs)}

ValidDefinitions(docs) ==
    /\ docs # <<>>
    /\ \A i \in 1..Len(docs) : IsTypeDefinition(docs[i])
    /\ \A i, j \in 1..Len(docs) : docs[i].Name = docs[j].Name => i = j

\* a first LoadCRDs on a new directory has returned, of a source of valid
\* definitions
FirstLoadOfDefinitions ==
    /\ LoadReturned
    /\ out.before = NewOfflineBackend(CcrnGroup)
    /\ ValidDefinitions(SourceDocs(disk, out.arg))

\* C35: given the same set of structurally valid type definitions and the
\* same naming-authority substring, the Static Directory after loading and
\* the Live Directory after a refresh hold the same index: the same type
\* keys, each with the same name, plural, singular, group, kind, version
\* and URN template, so that IsResourceTypeSupported and GetCRD agree for
\* every key, in whatever order the control plane lists the definitions.
C35_SameIndex ==
    FirstLoadOfDefinitions =>
        \A items \in Orders(DefinitionSet(SourceDocs(disk, out.arg))) :
            /\ ShapeOf(fb.crds) = ShapeOf(FilteredListing(items, fb.ccrnGroup))
            /\ \A key \in LookupKeys :
                   /\ FsIsResourceTypeSupported(fb, key)
                          <=> K8sIsResourceTypeSupported(
                                  K8sRefresh(NewKubernetesIndex(fb.ccrnGroup),
                                             [items |-> items, up |-> TRUE]).kb,
                                  [items |-> items, up |-> TRUE], key).supported
                   /\ FsGetCRD(fb, key).err = NoErr
                          <=> K8sGetCRD(K8sRefresh(NewKubernetesIndex(fb.ccrnGroup),
                                                  [items |-> items, up |-> TRUE]).kb,
                                       [items |-> items, up |-> TRUE], key).err = NoErr

\* a first load has returned of two definitions, one of them of another
\* naming authority, with a type indexed
C35_Witness ==
    /\ FirstLoadOfDefinitions
    /\ Cardinality(DefinitionSet(SourceDocs(disk, out.arg))) >= 2
    /\ \E doc \in DefinitionSet(SourceDocs(disk, out.arg)) : ~Contains(doc.Group, CcrnGroup)
    /\ DOMAIN fb.crds # {}

---------------------------------------------------------------------------
(* Parse as a total and terminating function, checked under Spec.          *)

\* C36: Parse is total: for every input and every template, a URN with a
\* single segment after urn:ccrn: included, it returns a ParsedResource or
\* an error and never aborts with a runtime fault such as an index out of
\* range.
C36_ParseNeverPanics ==
    out.op = "Parse" => out.r.fault # "panic"

\* Parse was given a URN of fewer than two segments with a concrete
\* template
C36_Witness ==
    /\ out.op = "Parse"
    /\ HasPrefix(argInput, "urn:ccrn:")
    /\ Len(BodyParts(argInput)) < 2
    /\ argTemplate \notin {"", DEFAULT_URN_TEMPLATE}
    /\ HasPrefix(argTemplate, "urn:ccrn:")

\* the inputs Parse answers with a fault: a URN body without a slash
C36_PanicsOnlyOnShortURN ==
    (out.op = "Parse" /\ out.r.fault = "panic") =>
        /\ HasPrefix(argInput, "urn:ccrn:")
        /\ Len(BodyParts(argInput)) < 2

\* C37: Parse terminates for every URN and every directory content: with
\* no concrete template it asks the directory for the template at most
\* once and then makes one template-driven parse, also when the directory
\* returns the default template urn:ccrn:<ccrn>.
C37_ParseTerminates ==
    out.op = "Parse" =>
        /\ out.r.fault # "overflow"
        /\ Cardinality(CallsOf(out.r.calls, "GetURNTemplate")) <= 1

\* Parse was given a URN and no concrete template on a directory whose
\* template for the URN's type is the default template
C37_Witness ==
    /\ out.op = "Parse"
    /\ HasPrefix(argInput, "urn:ccrn:")
    /\ argTemplate \in {"", DEFAULT_URN_TEMPLATE}
    /\ parseURNCCRNField(argInput).err = NoErr
    /\ \E t \in FsGetURNTemplate(fb, "t.g", "v1") :
           t.err = NoErr /\ t.template = DEFAULT_URN_TEMPLATE
    /\ parseURNCCRNField(argInput).ccrn = "t.g/v1"

\* Parse fails to terminate only when the directory answers the lookup
\* with the default template
C37_OverflowOnlyOnDefault ==
    (out.op = "Parse" /\ out.r.fault = "overflow") =>
        \E t \in FsGetURNTemplate(fb, "t.g", "v1") :
            t.err = NoErr /\ t.template = DEFAULT_URN_TEMPLATE

---------------------------------------------------------------------------
(* The two template lookups of the Static Directory.                       *)

\* the resource the parser builds of a type key before it asks for the
\* template
KeyedResource(k) == ParsedResource("URN", "ccrn" :> k, "")

\* the answers of GetURNTemplate for a type key, asked as Parse asks
TemplateByName(fbr, k) ==
    FsGetURNTemplate(fbr, CCRNName(KeyedResource(k)), Version(KeyedResource(k)))

\* C38: the two template lookups of the Static Directory agree: for every
\* type key k of the index whose descriptor has a non-empty URN template,
\* GetURNTemplate called with the name part and the version part of k
\* succeeds and returns the template GetCRD(k).URNFormat holds.
C38_LookupsAgree ==
    (IF out.op = "none" THEN TRUE ELSE out.fault = "none") =>
        \A k \in DOMAIN fb.crds :
            FsGetCRD(fb, k).info.URNFormat # "" =>
                \A t \in TemplateByName(fb, k) :
                    /\ t.err = NoErr
                    /\ t.template = FsGetCRD(fb, k).info.URNFormat

\* the index holds a type with a URN template whose definition is named
\* plural.group
C38_Witness ==
    /\ out.op = "LoadCRDs" /\ out.fault = "none"
    /\ \E k \in DOMAIN fb.crds :
           /\ FsGetCRD(fb, k).info.URNFormat # ""
           /\ FsGetCRD(fb, k).info.Name # CCRNName(KeyedResource(k))

\* the lookups agree for a type whose definition is the one loaded
\* definition of the name kind.group and whose descriptor holds the
\* template the definition carries
C38_AgreeWhenNamedByKind ==
    (IF out.op = "none" THEN TRUE ELSE out.fault = "none") =>
        \A k \in DOMAIN fb.crds :
            (/\ FsGetCRD(fb, k).info.URNFormat # ""
             /\ FsGetCRD(fb, k).info.Name = CCRNName(KeyedResource(k))
             /\ Cardinality(LoadedNamed(fb, FsGetCRD(fb, k).info.Name)) = 1
             /\ FsGetCRD(fb, k).info.URNFormat
                    \in AnnotatedTemplates(fb, FsGetCRD(fb, k).info.Name, FsGetCRD(fb, k).info.Version))
            => \A t \in TemplateByName(fb, k) :
                   /\ t.err = NoErr
                   /\ t.template = FsGetCRD(fb, k).info.URNFormat

---------------------------------------------------------------------------
(* The renderings of a field mapping, checked under Spec.                  *)

\* a field value that holds the text of a placeholder
HoldsPlaceholder(fields) ==
    \E k \in DOMAIN fields : Contains(fields[k], "<") /\ Contains(fields[k], ">")

\* C39: URN rendering is deterministic: for a given field mapping and
\* template, URN returns the same string whatever the order in which the
\* fields are visited, also when a field value holds text of the form
\* <otherField>.
C39_URNDeterministic ==
    out.op = "URN" => URN(out.p, argTemplate) = {out.urn}

\* a mapping with a value of the form <otherField> was rendered with a
\* template that names both fields
C39_Witness ==
    /\ out.op = "URN"
    /\ argTemplate = URNTemplateT
    /\ {"cluster", "name"} \subseteq DOMAIN out.p.Fields
    /\ out.p.Fields["cluster"] = "<name>"

\* the rendering does not depend on the order when no value holds a
\* placeholder
C39_DeterministicWithoutPlaceholder ==
    (IF out.op = "URN" THEN ~HoldsPlaceholder(out.p.Fields) ELSE FALSE)
        => URN(out.p, argTemplate) = {out.urn}

\* C40: field-list round trip: for every mapping m that a successful
\* field-list parse returns, rendering m with CCRN() and parsing the
\* rendering again succeeds and yields a mapping equal to m, in whatever
\* order the renderer emits the fields after ccrn.
C40_CCRNRoundTrip ==
    out.op = "CCRNRoundTrip" =>
        /\ out.back.fault = "none"
        /\ out.back.err = NoErr
        /\ out.back.parsed.Fields = out.x.Fields

\* a mapping of three fields, one of them written in quotes, was rendered
\* and parsed again
C40_Witness ==
    /\ out.op = "CCRNRoundTrip"
    /\ Cardinality(DOMAIN out.x.Fields) = 3
    /\ Contains(argInput, "\"")

\* a value that the parser reads back as the renderer writes it: no blank
\* at either end and no pair of double quotes around it
Verbatim(v) == TrimSpace(v) = v /\ stripQuotes(v) = v

\* the round trip succeeds for the mappings whose keys and values are read
\* back as they are written
C40_RoundTripOfVerbatimValues ==
    (IF out.op = "CCRNRoundTrip"
     THEN \A k \in DOMAIN out.x.Fields : Verbatim(out.x.Fields[k])
     ELSE FALSE)
    => /\ out.back.fault = "none"
       /\ out.back.err = NoErr
       /\ out.back.parsed.Fields = out.x.Fields

===========================================================================
